---- MODULE Spec2Model ----
(***************************************************************************)
(* Authentication and credential lifecycle of the user-management API:     *)
(* the handlers of src/src/controllers/users/usersControllers.js acting on *)
(* the User collection of src/unnamed/part_003.  Every handler is one      *)
(* atomic action; req, res and mail record the request just served, its    *)
(* response and the email it tried to dispatch; consumed records the       *)
(* tokens that were used up or replaced, and the refresh tokens whose      *)
(* cookie was overwritten or cleared.  profiles is the Profile collection  *)
(* of src/src/models/Contact.js; pending holds the requests that are past  *)
(* their checks and wait for their write, where handlers are interleaved.  *)
(***************************************************************************)
EXTENDS Integers, Sequences, FiniteSets, Bags, TLC

\* ------------------------------------------------------------------ bounds
\* number of ObjectIds ever allocated (ids are never reused)
MaxUsers == 2
\* last instant of the clock, in clock units ("milliseconds")
MaxTime == 4
\* number of values crypto.randomBytes hands out
MaxRand == 2
\* clock units per JWT second: Date.now() is finer than the JWT clock
MsPerSec == 2
\* lifetimes, scaled down; the JWT ones count JWT seconds
VerifyTTL == 2
ResetTTLSec == 1
AccessTTLSec == 1
RefreshTTLSec == 2
\* requests served concurrently
MaxInFlight == 2
\* how many Contact documents the collection holds at most
MaxContacts == 2

\* ------------------------------------------------------------------ inputs
Emails == {"root@x.com", "a@x.com"}
\* what a request may carry in an optional string field ("" is absent)
OptEmails == Emails \cup {""}

VARIABLES users, nextId, nextRand, now, req, res, mail, consumed,
          profiles, pending, jar, contacts, mailer

vars == <<users, nextId, nextRand, now, req, res, mail, consumed,
          profiles, pending, jar, contacts, mailer>>

\* what the handlers of the concurrent requests leave alone: the cookie the
\* browser holds, the Contact collection and the state of the mail module
apart == <<jar, contacts, mailer>>

\* what the user and authentication handlers, served one at a time, leave
\* alone: the Profile collection and the requests in flight as well
aside == <<profiles, pending, jar, contacts, mailer>>

\* ------------------------------------------------------------ JSON tokens
JWT_SECRET == "access-secret"
REFRESH_TOKEN_SECRET == "refresh-secret"
RESET_TOKEN_SECRET == "reset-secret"

NoJwt == [secret |-> "", sub |-> 0, iat |-> 0, exp |-> 0]
MalformedJwt == [secret |-> "malformed", sub |-> 0, iat |-> 0, exp |-> 0]

\* the JWT clock: Math.floor(Date.now() / 1000)
ClockTimestamp(t) == t \div MsPerSec

\* jwt.sign({id}, secret, {expiresIn}): no nonce, so the token is a function
\* of the subject, the secret and the second it is signed in
JwtSign(id, secret, ttl, t) ==
    [secret |-> secret, sub |-> id, iat |-> ClockTimestamp(t),
     exp |-> ClockTimestamp(t) + ttl]

\* jwt.verify with ignoreExpiration
JwtVerifyIgnoreExpiration(token, secret, t) ==
    IF token = MalformedJwt \/ token.secret # secret THEN "JsonWebTokenError"
    ELSE "ok"

\* jwt.verify accepting a token signed with any of the keys
JwtVerifyAnyKey(token, secret, t) ==
    IF token = MalformedJwt THEN "JsonWebTokenError"
    ELSE IF ClockTimestamp(t) >= token.exp THEN "TokenExpiredError"
    ELSE "ok"

\* jwt.verify(token, secret): the signature is checked before the expiry
JwtVerify(token, secret, t) ==
    IF token = MalformedJwt \/ token.secret # secret THEN "JsonWebTokenError"
    ELSE IF ClockTimestamp(t) >= token.exp THEN "TokenExpiredError"
    ELSE "ok"

generateAccessToken(id) == JwtSign(id, JWT_SECRET, AccessTTLSec, now)
generateRefreshToken(id) == JwtSign(id, REFRESH_TOKEN_SECRET, RefreshTTLSec, now)

\* --------------------------------------------------------------- passwords
\* bcrypt.hash / bcrypt.compare: the hash is not the plaintext and compares
\* equal to the plaintext it was made from only
\* the password stored as it was submitted
BcryptHashPlain(p) == p

BcryptHash(p) == "$2a$" \o p
BcryptCompare(p, h) == h = BcryptHash(p)

\* ------------------------------------------------------------ the database
NoToken == 0
NoDate == -1

\* new User({...}): the schema defaults of src/unnamed/part_003
NewUser(email, hash, fullName, role, verified, evTok, evExp) ==
    [email |-> email, password |-> hash, fullName |-> fullName, role |-> role,
     isEmailVerified |-> verified,
     emailVerificationToken |-> evTok, emailVerificationExpires |-> evExp,
     passwordResetToken |-> NoJwt, passwordResetExpires |-> NoDate]

\* the role enum of the schema, checked by save()
SchemaRoles == {"admin", "user"}

Min(S) == CHOOSE x \in S : \A y \in S : x <= y

\* User.findOne({email})
FindByEmail(email) == {i \in DOMAIN users : users[i].email = email}

\* ---------------------------------------------------------------- responses
\* data is the list of user objects in the JSON body
Resp(status, message) ==
    [status |-> status, message |-> message, accessToken |-> NoJwt,
     cookie |-> NoJwt, clearCookie |-> FALSE, data |-> <<>>]

\* ------------------------------------------------ serialising an account
\* the paths of a document a query loaded: password is select: false in the
\* schema, so a query loads it only when asked with select('+password')
Paths(u, paths) == [f \in paths |-> u[f]]
DefaultPaths(u) == Paths(u, DOMAIN u \ {"password"})

\* sanitizeUser leaving the object as it is
sanitizeUserKeepPassword(user) == user

\* sanitizeUser: toObject(), then delete userObj.password
sanitizeUser(user) == Paths(user, DOMAIN user \ {"password"})

\* res.json(document): the toJSON transform of the schema
toJSON(doc) ==
    Paths(doc, DOMAIN doc \ {"password", "emailVerificationToken",
                             "emailVerificationExpires"})

\* a response with user objects in its data
WithData(out, objects) == [out EXCEPT !.data = objects]

\* id and ids are the documents the id strings of a request denote
\* the body of a contact request: name, email (its characters) and message;
\* the reply of an administrator uses message alone
NoForm == [name |-> "", email |-> <<>>, message |-> ""]

Req(op, caller, id, email, password, token, jwt) ==
    [op |-> op, caller |-> caller, id |-> id, email |-> email,
     password |-> password, token |-> token, jwt |-> jwt, ids |-> {},
     form |-> NoForm]

\* an id string of a request: 24 hex digits, modelled by the ObjectId they
\* denote and by whether the digits a-f are written in upper case.
\* ObjectId.isValid and the cast of a query take both spellings; toString()
\* and the id getter of a document give the lower-case one
IdString(oid, upper) == [oid |-> oid, upper |-> upper]
ToHexString(oid) == IdString(oid, FALSE)
CastObjectId(s) == s.oid

\* the email a request tried to dispatch: the token or link it carries, when
\* it was handed to the mailer, and whether the mailer delivered it
NoMail ==
    [kind |-> "", to |-> "", token |-> NoToken, jwt |-> NoJwt, at |-> 0, ok |-> TRUE]
Mail(kind, to, token, jwt, ok) ==
    [kind |-> kind, to |-> to, token |-> token, jwt |-> jwt, at |-> now, ok |-> ok]

\* a request in flight: a handler suspended at the await of its write, with
\* the body it was sent and the document it has read
NoBody == [fullName |-> "", email |-> "", password |-> "", role |-> "",
           isEmailVerified |-> "absent"]
NoDoc == NewUser("", "", "", "", FALSE, NoToken, NoDate)
InFlight(op, caller, id, body, doc) ==
    [op |-> op, caller |-> caller, id |-> id, body |-> body, doc |-> doc]

\* --------------------------------------------------------- the mail modules
\* host names as their labels: smtp.gmail.com, smtp.ethereal.email, and the
\* empty name of an unset EMAIL_HOST
Hosts == {<<"smtp", "gmail", "com">>, <<"smtp", "ethereal", "email">>, <<>>}

\* host.includes('gmail')
IncludesGmail(host) == \E i \in 1..Len(host) : host[i] = "gmail"

\* the configuration of a transporter: the host and whose account it uses
NoConfig == [host |-> <<>>, user |-> ""]

\* createTransporter never switching to the Ethereal account
createTransporterNoFallback(EMAIL_HOST, gmailFailed) ==
    [host |-> IF EMAIL_HOST = <<>> THEN <<"smtp", "ethereal", "email">>
              ELSE EMAIL_HOST,
     user |-> "EMAIL_USER"]

\* createTransporter: EMAIL_HOST or the default, and the Ethereal account
\* instead once the flag of the module is set and the host is a gmail one
createTransporter(EMAIL_HOST, gmailFailed) ==
    LET host == IF EMAIL_HOST = <<>> THEN <<"smtp", "ethereal", "email">>
                ELSE EMAIL_HOST IN
    IF gmailFailed /\ IncludesGmail(host)
    THEN [host |-> <<"smtp", "ethereal", "email">>, user |-> "ETHEREAL_USER"]
    ELSE [host |-> host, user |-> "EMAIL_USER"]

\* the senders of emailVerification.js whose catch sets gmailFailed; the
\* catch of sendWelcomeEmail does not
FlagSenders == {"verification", "passwordReset", "passwordResetSuccess"}

\* ------------------------------------------------------------------- Init
\* the collection starts with the seeded administrator; nothing served yet
Boot(host) ==
    /\ users = (1 :> NewUser("root@x.com", BcryptHash("longenough1"), "Ann",
                             "admin", TRUE, NoToken, NoDate))
    /\ nextId = 2
    /\ nextRand = 1
    /\ now = 0
    /\ req = Req("", 0, 0, "", "", NoToken, NoJwt)
    /\ res = Resp(0, "")
    /\ mail = NoMail
    /\ consumed = [verify |-> {}, reset |-> {}, superseded |-> {},
                   discarded |-> {}, verifiedAgain |-> {}, resetAgain |-> {}]
    /\ profiles = EmptyBag
    /\ pending = EmptyBag
    /\ jar = NoJwt
    /\ contacts = <<>>
    /\ mailer = [EMAIL_HOST |-> host, gmailFailed |-> FALSE,
                 contactGmailFailed |-> FALSE, config |-> NoConfig]

\* the process started without EMAIL_HOST
Init == Boot(<<>>)

\* time passes
Tick ==
    /\ now < MaxTime
    /\ now' = now + 1
    /\ UNCHANGED <<users, nextId, nextRand, req, res, mail, consumed>>

\* ------------------------------------------------------------------ signup
\* the response of signup and whether it creates the account
SignupOutcome(email, password, confirmPassword, fullName) ==
    IF email = "" \/ password = "" \/ confirmPassword = "" \/ fullName = ""
    THEN Resp(400, "All fields are required")
    ELSE IF password # confirmPassword THEN Resp(400, "Passwords do not match")
    ELSE IF Len(password) < 8
    THEN Resp(400, "Password must be at least 8 characters")
    ELSE IF FindByEmail(email) # {} THEN Resp(409, "Email already exists")
    ELSE Resp(201, "User created successfully. Please check your email to verify your account.")

\* signup awaiting the verification email and failing with it
SignupFailingOnMail(email, password, confirmPassword, fullName, mailOk) ==
    LET out == SignupOutcome(email, password, confirmPassword, fullName) IN
    /\ nextId <= MaxUsers
    /\ nextRand <= MaxRand
    /\ req' = Req("signup", 0, 0, email, password, NoToken, NoJwt)
    /\ IF out.status = 201
       THEN /\ res' = IF mailOk
                      THEN WithData(out, <<sanitizeUser(
                               NewUser(email, BcryptHash(password), fullName,
                                       "user", FALSE, nextRand, now + VerifyTTL))>>)
                      ELSE Resp(500, "Internal server error")
            /\ users' = IF mailOk
                        THEN users @@ (nextId :>
                               NewUser(email, BcryptHash(password), fullName,
                                       "user", FALSE, nextRand, now + VerifyTTL))
                        ELSE users
            /\ nextId' = IF mailOk THEN nextId + 1 ELSE nextId
            /\ nextRand' = nextRand + 1
            /\ mail' = Mail("verification", email, nextRand, NoJwt, mailOk)
       ELSE /\ res' = out
            /\ mail' = NoMail
            /\ UNCHANGED <<users, nextId, nextRand>>
    /\ UNCHANGED <<now, consumed>>

Signup(email, password, confirmPassword, fullName, mailOk) ==
    LET out == SignupOutcome(email, password, confirmPassword, fullName) IN
    /\ nextId <= MaxUsers
    /\ nextRand <= MaxRand
    /\ req' = Req("signup", 0, 0, email, password, NoToken, NoJwt)
    /\ IF out.status = 201
       THEN /\ users' = users @@ (nextId :>
                  NewUser(email, BcryptHash(password), fullName, "user", FALSE,
                          nextRand, now + VerifyTTL))
            /\ res' = WithData(out, <<sanitizeUser(users'[nextId])>>)
            /\ nextId' = nextId + 1
            /\ nextRand' = nextRand + 1
            /\ mail' = Mail("verification", email, nextRand, NoJwt, mailOk)
       ELSE /\ res' = out
            /\ mail' = NoMail
            /\ UNCHANGED <<users, nextId, nextRand>>
    /\ UNCHANGED <<now, consumed>>

\* ------------------------------------------------------------------- login
\* login comparing the password before it looks at the verification flag
LoginResponsePasswordFirst(email, password) ==
    IF email = "" \/ password = "" THEN Resp(400, "Email and password are required")
    ELSE IF FindByEmail(email) = {} THEN Resp(401, "Invalid credentials")
    ELSE LET id == Min(FindByEmail(email)) IN
         IF ~BcryptCompare(password, users[id].password)
         THEN Resp(401, "Invalid credentials")
         ELSE IF ~users[id].isEmailVerified
         THEN Resp(401, "Please verify your email address before logging in")
         ELSE [Resp(200, "") EXCEPT !.accessToken = generateAccessToken(id),
                                    !.cookie = generateRefreshToken(id),
                                    !.data = <<sanitizeUser(users[id])>>]

\* login telling an unknown email apart from a wrong password
LoginResponseRevealing(email, password) ==
    IF email = "" \/ password = "" THEN Resp(400, "Email and password are required")
    ELSE IF FindByEmail(email) = {} THEN Resp(401, "User not found")
    ELSE LET id == Min(FindByEmail(email)) IN
         IF ~users[id].isEmailVerified
         THEN Resp(401, "Please verify your email address before logging in")
         ELSE IF ~BcryptCompare(password, users[id].password)
         THEN Resp(401, "Invalid credentials")
         ELSE [Resp(200, "") EXCEPT !.accessToken = generateAccessToken(id),
                                    !.cookie = generateRefreshToken(id),
                                    !.data = <<sanitizeUser(users[id])>>]

LoginResponse(email, password) ==
    IF email = "" \/ password = "" THEN Resp(400, "Email and password are required")
    ELSE IF FindByEmail(email) = {} THEN Resp(401, "Invalid credentials")
    ELSE LET id == Min(FindByEmail(email)) IN
         IF ~users[id].isEmailVerified
         THEN Resp(401, "Please verify your email address before logging in")
         ELSE IF ~BcryptCompare(password, users[id].password)
         THEN Resp(401, "Invalid credentials")
         ELSE [Resp(200, "") EXCEPT !.accessToken = generateAccessToken(id),
                                    !.cookie = generateRefreshToken(id),
                                    !.data = <<sanitizeUser(users[id])>>]

Login(email, password) ==
    /\ req' = Req("login", 0, 0, email, password, NoToken, NoJwt)
    /\ res' = LoginResponse(email, password)
    /\ mail' = NoMail
    /\ UNCHANGED <<users, nextId, nextRand, now, consumed>>

\* ------------------------------------------------ resendVerificationEmail
\* resend without the already-verified check
ResendRefusalNoVerifiedCheck(email) ==
    IF email = "" THEN Resp(400, "Email is required")
    ELSE IF FindByEmail(email) = {} THEN Resp(404, "User not found")
    ELSE Resp(0, "none")

\* "none" while the request is refused before a token is generated
ResendRefusal(email) ==
    IF email = "" THEN Resp(400, "Email is required")
    ELSE IF FindByEmail(email) = {} THEN Resp(404, "User not found")
    ELSE IF users[Min(FindByEmail(email))].isEmailVerified
    THEN Resp(400, "Email is already verified")
    ELSE Resp(0, "none")

\* resend pushing the expiry out without replacing the stored token
SetVerificationTokenKeepOld(u, token, expires) ==
    [u EXCEPT !.emailVerificationToken =
                  IF @ = NoToken THEN token ELSE @,
              !.emailVerificationExpires = expires]

\* the fields resendVerificationEmail writes before save()
SetVerificationToken(u, token, expires) ==
    [u EXCEPT !.emailVerificationToken = token,
              !.emailVerificationExpires = expires]

ResendVerificationEmail(email, mailOk) ==
    LET refusal == ResendRefusal(email) IN
    /\ nextRand <= MaxRand
    /\ req' = Req("resendVerificationEmail", 0, 0, email, "", NoToken, NoJwt)
    /\ IF refusal.status # 0
       THEN /\ res' = refusal
            /\ mail' = NoMail
            /\ UNCHANGED <<users, nextRand>>
       ELSE LET id == Min(FindByEmail(email)) IN
            /\ users' = [users EXCEPT ![id] =
                  SetVerificationToken(users[id], nextRand, now + VerifyTTL)]
            /\ nextRand' = nextRand + 1
            /\ mail' = Mail("verification", email, nextRand, NoJwt, mailOk)
            /\ res' = IF mailOk
                      THEN Resp(200, "Verification email sent successfully")
                      ELSE Resp(500, "Failed to send verification email. Please try again later.")
    /\ consumed' = IF refusal.status = 0
                       /\ users[Min(FindByEmail(email))].emailVerificationToken # NoToken
                    THEN [consumed EXCEPT !.superseded = @ \cup
                            {<<email, users[Min(FindByEmail(email))].emailVerificationToken>>}]
                    ELSE consumed
    /\ UNCHANGED <<nextId, now>>

\* ------------------------------------------------------------- verifyEmail
\* User.findOne({email, emailVerificationToken, emailVerificationExpires > now})
FindForVerification(email, token) ==
    {i \in DOMAIN users :
        /\ users[i].email = email
        /\ users[i].emailVerificationToken = token
        /\ users[i].emailVerificationExpires # NoDate
        /\ users[i].emailVerificationExpires > now}

\* verifyEmail leaving the token and its expiry on the account
MarkVerifiedKeepToken(u) == [u EXCEPT !.isEmailVerified = TRUE]

\* the fields verifyEmail writes before save()
MarkVerified(u) ==
    [u EXCEPT !.isEmailVerified = TRUE,
              !.emailVerificationToken = NoToken,
              !.emailVerificationExpires = NoDate]

VerifyEmail(token, email, mailOk) ==
    /\ req' = Req("verifyEmail", 0, 0, email, "", token, NoJwt)
    /\ IF token = NoToken \/ email = ""
       THEN /\ res' = Resp(400, "Missing token or email")
            /\ mail' = NoMail
            /\ UNCHANGED <<users, consumed>>
       ELSE IF FindForVerification(email, token) = {}
       THEN /\ res' = Resp(400, "Invalid or expired verification token")
            /\ mail' = NoMail
            /\ UNCHANGED <<users, consumed>>
       ELSE LET id == Min(FindForVerification(email, token)) IN
            /\ users' = [users EXCEPT ![id] = MarkVerified(users[id])]
            /\ mail' = Mail("welcome", email, NoToken, NoJwt, mailOk)
            /\ res' = Resp(200, "Email verified successfully. You can now log in.")
            /\ consumed' = [consumed EXCEPT !.verify = @ \cup {<<email, token>>}]
    /\ UNCHANGED <<nextId, nextRand, now>>

\* ---------------------------------------------------------- forgotPassword
ForgotGeneric ==
    Resp(200, "If an account with that email exists, a password reset link has been sent")

\* forgotPassword swallowing a failed dispatch the way signup does
ForgotDispatchedSwallowed(mailOk) == ForgotGeneric

\* the response once the account was found and the reset email attempted
ForgotDispatched(mailOk) ==
    IF mailOk THEN ForgotGeneric
    ELSE Resp(500, "Failed to send password reset email. Please try again later.")

\* forgotPassword telling the caller that no account has the email
ForgotOutcomeRevealing(email, mailOk) ==
    IF email = "" THEN Resp(400, "Email is required")
    ELSE IF FindByEmail(email) = {} THEN Resp(404, "User not found")
    ELSE ForgotDispatched(mailOk)

\* what forgotPassword answers
ForgotOutcome(email, mailOk) ==
    IF email = "" THEN Resp(400, "Email is required")
    ELSE IF FindByEmail(email) = {} THEN ForgotGeneric
    ELSE ForgotDispatched(mailOk)

ForgotPassword(email, mailOk) ==
    /\ req' = Req("forgotPassword", 0, 0, email, "", NoToken, NoJwt)
    /\ res' = ForgotOutcome(email, mailOk)
    /\ IF email = "" \/ FindByEmail(email) = {}
       THEN /\ mail' = NoMail
            /\ UNCHANGED users
       ELSE LET id == Min(FindByEmail(email))
                resetToken == JwtSign(id, RESET_TOKEN_SECRET, ResetTTLSec, now) IN
            /\ users' = [users EXCEPT
                  ![id].passwordResetToken = resetToken,
                  ![id].passwordResetExpires = now + ResetTTLSec * MsPerSec]
            /\ mail' = Mail("passwordReset", email, NoToken, resetToken, mailOk)
    /\ UNCHANGED <<nextId, nextRand, now, consumed>>

\* ------------------------------------------- verifyResetToken, resetPassword
\* User.findOne({_id: decoded.id, passwordResetToken, passwordResetExpires > now})
FindForReset(token) ==
    {i \in DOMAIN users :
        /\ i = token.sub
        /\ users[i].passwordResetToken = token
        /\ users[i].passwordResetExpires # NoDate
        /\ users[i].passwordResetExpires > now}

\* jwt.verify, then the lookup: what both handlers answer short of success
ResetTokenCheck(token) ==
    LET v == JwtVerify(token, RESET_TOKEN_SECRET, now) IN
    IF v = "TokenExpiredError" THEN Resp(400, "Reset token has expired")
    ELSE IF v = "JsonWebTokenError" THEN Resp(400, "Invalid reset token")
    ELSE IF FindForReset(token) = {} THEN Resp(400, "Invalid or expired reset token")
    ELSE Resp(200, "Reset token is valid")

\* verifyResetToken using up the token it reports valid
VerifyResetTokenConsuming(token) ==
    LET out == IF token = NoJwt THEN Resp(400, "Reset token is required")
               ELSE ResetTokenCheck(token) IN
    /\ req' = Req("verifyResetToken", 0, 0, "", "", NoToken, token)
    /\ res' = out
    /\ mail' = NoMail
    /\ users' = IF out.status = 200
                THEN [users EXCEPT ![token.sub].passwordResetToken = NoJwt,
                                   ![token.sub].passwordResetExpires = NoDate]
                ELSE users
    /\ UNCHANGED <<nextId, nextRand, now, consumed>>

VerifyResetToken(token) ==
    /\ req' = Req("verifyResetToken", 0, 0, "", "", NoToken, token)
    /\ res' = IF token = NoJwt THEN Resp(400, "Reset token is required")
              ELSE ResetTokenCheck(token)
    /\ mail' = NoMail
    /\ UNCHANGED <<users, nextId, nextRand, now, consumed>>

\* the checks of resetPassword; status 200 means the reset goes ahead
ResetPasswordCheck(token, newPassword, confirmPassword) ==
    IF token = NoJwt \/ newPassword = "" \/ confirmPassword = ""
    THEN Resp(400, "All fields are required")
    ELSE IF newPassword # confirmPassword THEN Resp(400, "Passwords do not match")
    ELSE IF Len(newPassword) < 8
    THEN Resp(400, "Password must be at least 8 characters")
    ELSE ResetTokenCheck(token)

\* the fields resetPassword writes before save()
ApplyReset(u, newPassword) ==
    [u EXCEPT !.password = BcryptHash(newPassword),
              !.passwordResetToken = NoJwt,
              !.passwordResetExpires = NoDate]

\* resetPassword discarding the stored token of the account a refused
\* request names
ResetPasswordBurningToken(token, newPassword, confirmPassword) ==
    LET chk == ResetPasswordCheck(token, newPassword, confirmPassword) IN
    /\ req' = Req("resetPassword", 0, 0, "", newPassword, NoToken, token)
    /\ IF chk.status # 200
       THEN /\ res' = chk
            /\ mail' = NoMail
            /\ users' = IF token.sub \in DOMAIN users
                        THEN [users EXCEPT
                                ![token.sub].passwordResetToken = NoJwt,
                                ![token.sub].passwordResetExpires = NoDate]
                        ELSE users
            /\ UNCHANGED consumed
       ELSE LET id == Min(FindForReset(token)) IN
            /\ users' = [users EXCEPT ![id] = ApplyReset(users[id], newPassword)]
            /\ mail' = Mail("passwordResetSuccess", "", NoToken, NoJwt, FALSE)
            /\ res' = Resp(200, "Password has been reset successfully")
            /\ consumed' = [consumed EXCEPT !.reset = @ \cup {token}]
    /\ UNCHANGED <<nextId, nextRand, now>>

ResetPassword(token, newPassword, confirmPassword) ==
    LET chk == ResetPasswordCheck(token, newPassword, confirmPassword) IN
    /\ req' = Req("resetPassword", 0, 0, "", newPassword, NoToken, token)
    /\ IF chk.status # 200
       THEN /\ res' = chk
            /\ mail' = NoMail
            /\ UNCHANGED <<users, consumed>>
       ELSE LET id == Min(FindForReset(token)) IN
            /\ users' = [users EXCEPT ![id] = ApplyReset(users[id], newPassword)]
            \* sendPasswordResetSuccessEmail(user.email, user.fullName): the
            \* function reads .email of its first argument, a string here, so
            \* the mail has no recipient and the send throws; it is swallowed
            /\ mail' = Mail("passwordResetSuccess", "", NoToken, NoJwt, FALSE)
            /\ res' = Resp(200, "Password has been reset successfully")
            /\ consumed' = [consumed EXCEPT !.reset = @ \cup {token}]
    /\ UNCHANGED <<nextId, nextRand, now>>

\* ------------------------------------------------- the admin user routes
\* restrictTo(...roles) behind protect: the caller is the account the bearer
\* token resolved to
\* the role gate letting every authenticated caller through
restrictToAnyRole(roles, caller) == TRUE

restrictTo(roles, caller) == users[caller].role \in roles

Forbidden == Resp(403, "You do not have permission to perform this action")

\* a request body of createUser / updateUser; "" and "absent" are undefined
Body(fullName, email, password, role, isEmailVerified) ==
    [fullName |-> fullName, email |-> email, password |-> password,
     role |-> role, isEmailVerified |-> isEmailVerified]

\* validateUserCreation / validateUserUpdate (express-validator); creation
\* requires the three strings, update takes every field as optional
ValidatorRoles == {"student", "admin", "instructor"}

ValidFields(b) ==
    /\ b.fullName # "" => Len(b.fullName) >= 2 /\ Len(b.fullName) <= 50
    /\ b.password # "" => Len(b.password) >= 5
    /\ b.role # "" => b.role \in ValidatorRoles
    /\ b.isEmailVerified \in {"absent", "true", "false"}

ValidCreation(b) ==
    ValidFields(b) /\ b.fullName # "" /\ b.email # "" /\ b.password # ""

\* what createUser answers; 201 means the document is saved
CreateUserOutcome(b) ==
    IF ~ValidCreation(b) THEN Resp(400, "Validation failed")
    ELSE IF FindByEmail(b.email) # {}
    THEN Resp(400, "User with this email already exists")
    ELSE IF (IF b.role = "" THEN "student" ELSE b.role) \notin SchemaRoles
    THEN Resp(500, "Server error while creating user")
    ELSE Resp(201, "User created successfully")

\* createUser behind protect and restrictTo('admin'), reached with a bearer
\* token that resolved to caller
CreateUserAs(caller, b, bearer) ==
    LET out == IF restrictTo({"admin"}, caller) THEN CreateUserOutcome(b)
               ELSE Forbidden IN
    /\ caller \in DOMAIN users
    /\ nextId <= MaxUsers
    /\ req' = Req("createUser", caller, 0, b.email, b.password, NoToken, bearer)
    /\ mail' = NoMail
    /\ IF out.status = 201
       THEN /\ users' = users @@ (nextId :>
                  NewUser(b.email, BcryptHash(b.password), b.fullName, b.role,
                          b.isEmailVerified = "true", NoToken, NoDate))
            /\ res' = WithData(out, <<toJSON(DefaultPaths(users'[nextId]))>>)
            /\ nextId' = nextId + 1
       ELSE res' = out /\ UNCHANGED <<users, nextId>>
    /\ UNCHANGED <<nextRand, now, consumed>>

CreateUser(caller, b) == CreateUserAs(caller, b, NoJwt)

\* the email change forgetting the expiry of the token it clears
ChangeEmailKeepExpires(u, email) ==
    [u EXCEPT !.email = email,
              !.isEmailVerified = FALSE,
              !.emailVerificationToken = NoToken]

\* updateUser, lines 339-355: the email change and what it resets
ChangeEmail(u, email) ==
    [u EXCEPT !.email = email,
              !.isEmailVerified = FALSE,
              !.emailVerificationToken = NoToken,
              !.emailVerificationExpires = NoDate]

\* updateUser, lines 357-364: the remaining field updates
UpdateFields(u, b, isAdmin) ==
    [u EXCEPT
       !.fullName = IF b.fullName # "" THEN b.fullName ELSE @,
       !.password = IF b.password # "" THEN BcryptHash(b.password) ELSE @,
       !.role = IF b.role # "" /\ isAdmin THEN b.role ELSE @,
       !.isEmailVerified = IF b.isEmailVerified # "absent" /\ isAdmin
                           THEN b.isEmailVerified = "true" ELSE @]

\* the document updateUser hands to save()
UpdatedUser(u, b, isAdmin) ==
    UpdateFields(IF b.email # "" /\ b.email # u.email
                 THEN ChangeEmail(u, b.email) ELSE u, b, isAdmin)

\* deleteUser, line 401, and updateUser, line 280: req.user.id === id, a
\* comparison of strings
IsOwnId(caller, id) == ToHexString(caller) = id

\* updateUser letting every authenticated caller through
NotAuthorizedNever(caller, id) == FALSE

\* updateUser, lines 279-283: !isAdmin && !isSelfUpdate
NotAuthorized(caller, id) ==
    users[caller].role # "admin" /\ ~IsOwnId(caller, id)

\* what updateUser answers to the id string id; 200 means the document is
\* saved
UpdateUserOutcome(caller, id, b) ==
    LET isAdmin == users[caller].role = "admin"
        isSelfUpdate == IsOwnId(caller, id)
        oid == CastObjectId(id) IN
    IF NotAuthorized(caller, id)
    THEN Resp(403, "Not authorized to update this user")
    ELSE IF ~ValidFields(b) THEN Resp(400, "Validation failed")
    ELSE IF oid \notin DOMAIN users THEN Resp(404, "User not found")
    ELSE IF isSelfUpdate /\ ~isAdmin /\ b.role # "" /\ b.role # users[oid].role
    THEN Resp(403, "Cannot change your own role")
    ELSE IF /\ isSelfUpdate /\ ~isAdmin /\ b.isEmailVerified # "absent"
            /\ (b.isEmailVerified = "true") # users[oid].isEmailVerified
    THEN Resp(403, "Cannot change email verification status")
    ELSE IF /\ b.email # "" /\ b.email # users[oid].email
            /\ FindByEmail(b.email) \ {oid} # {}
    THEN Resp(400, "Email already exists")
    ELSE IF UpdatedUser(users[oid], b, isAdmin).role \notin SchemaRoles
    THEN Resp(500, "Server error while updating user")
    ELSE Resp(200, "User updated successfully")

UpdateUser(caller, id, b) ==
    LET out == UpdateUserOutcome(caller, id, b)
        oid == CastObjectId(id) IN
    /\ caller \in DOMAIN users
    /\ req' = Req("updateUser", caller, oid, b.email, b.password, NoToken, NoJwt)
    /\ mail' = NoMail
    /\ users' = IF out.status = 200
                THEN [users EXCEPT ![oid] =
                        UpdatedUser(users[oid], b, users[caller].role = "admin")]
                ELSE users
    /\ res' = IF out.status = 200
              THEN WithData(out, <<toJSON(DefaultPaths(users'[oid]))>>)
              ELSE out
    /\ UNCHANGED <<nextId, nextRand, now, consumed>>

\* the fields updateUserStatus writes before save()
SetStatus(u, isEmailVerified) ==
    IF isEmailVerified
    THEN [u EXCEPT !.isEmailVerified = TRUE,
                   !.emailVerificationToken = NoToken,
                   !.emailVerificationExpires = NoDate]
    ELSE [u EXCEPT !.isEmailVerified = FALSE]

UpdateUserStatusAs(caller, id, isEmailVerified, bearer) ==
    /\ caller \in DOMAIN users
    /\ req' = Req("updateUserStatus", caller, id, "", "", NoToken, bearer)
    /\ mail' = NoMail
    /\ IF ~restrictTo({"admin"}, caller)
       THEN res' = Forbidden /\ UNCHANGED users
       ELSE IF isEmailVerified = "absent"
       THEN /\ res' = Resp(400, "Email verification status must be a boolean")
            /\ UNCHANGED users
       ELSE IF id \notin DOMAIN users
       THEN res' = Resp(404, "User not found") /\ UNCHANGED users
       ELSE /\ users' = [users EXCEPT
                   ![id] = SetStatus(users[id], isEmailVerified = "true")]
            /\ res' = Resp(200, IF isEmailVerified = "true"
                   THEN "User email verification status updated to verified"
                   ELSE "User email verification status updated to unverified")
    /\ UNCHANGED <<nextId, nextRand, now, consumed>>

UpdateUserStatus(caller, id, isEmailVerified) ==
    UpdateUserStatusAs(caller, id, isEmailVerified, NoJwt)

DeleteUserAs(caller, id, bearer) ==
    LET oid == CastObjectId(id) IN
    /\ caller \in DOMAIN users
    /\ req' = Req("deleteUser", caller, oid, "", "", NoToken, bearer)
    /\ mail' = NoMail
    /\ IF ~restrictTo({"admin"}, caller)
       THEN res' = Forbidden /\ UNCHANGED users
       ELSE IF IsOwnId(caller, id)
       THEN res' = Resp(400, "Cannot delete your own account") /\ UNCHANGED users
       ELSE IF oid \notin DOMAIN users
       THEN res' = Resp(404, "User not found") /\ UNCHANGED users
       ELSE /\ users' = [i \in DOMAIN users \ {oid} |-> users[i]]
            /\ res' = Resp(200, "User deleted successfully")
    /\ UNCHANGED <<nextId, nextRand, now, consumed>>

\* ids of S, newest first: sort({createdAt: -1}), the default of getUsers
NewestFirst(S) ==
    [k \in 1..Cardinality(S) |->
        CHOOSE x \in S : Cardinality({y \in S : y > x}) = k - 1]

\* getUsers behind protect and restrictTo('admin'), with the default query:
\* find({}).select('-password -emailVerificationToken -passwordResetToken')
\* .lean()
GetUsers(caller) ==
    LET ids == NewestFirst(DOMAIN users) IN
    /\ caller \in DOMAIN users
    /\ req' = Req("getUsers", caller, 0, "", "", NoToken, NoJwt)
    /\ res' = IF ~restrictTo({"admin"}, caller) THEN Forbidden
              ELSE WithData(Resp(200, ""),
                     [k \in DOMAIN ids |->
                        Paths(users[ids[k]],
                              DOMAIN users[ids[k]] \ {"password",
                                  "emailVerificationToken", "passwordResetToken"})])
    /\ mail' = NoMail
    /\ UNCHANGED <<users, nextId, nextRand, now, consumed>>

\* getUserById, lines 243-249: every path is loaded, the password is
\* replaced by the hasPassword indicator
UserResponse(user) ==
    [f \in (DOMAIN user \ {"password"}) \cup {"hasPassword"} |->
        IF f = "hasPassword" THEN user.password # "" ELSE user[f]]

GetUserById(caller, id) ==
    /\ caller \in DOMAIN users
    /\ req' = Req("getUserById", caller, id, "", "", NoToken, NoJwt)
    /\ res' = IF ~restrictTo({"admin"}, caller) THEN Forbidden
              ELSE IF id \notin DOMAIN users THEN Resp(404, "User not found")
              ELSE WithData(Resp(200, ""), <<UserResponse(users[id])>>)
    /\ mail' = NoMail
    /\ UNCHANGED <<users, nextId, nextRand, now, consumed>>

\* ------------------------------------------------- the guards of auth.js
\* what a guard does with a request: the response it sends (status 0: none),
\* the account it puts in req.user (0: none), how often it calls next()
Guard(status, message, user, next) ==
    [status |-> status, message |-> message, user |-> user, next |-> next]

\* authenticate checking the signature of the token but not its expiry
authenticateIgnoreExpiration(bearer) ==
    IF bearer = NoJwt THEN Guard(401, "Not authorized, no token", 0, 0)
    ELSE IF JwtVerifyIgnoreExpiration(bearer, JWT_SECRET, now) # "ok"
    THEN Guard(401, "Not authorized, invalid token", 0, 0)
    ELSE IF bearer.sub \notin DOMAIN users
    THEN Guard(401, "Not authorized, user not found", 0, 0)
    ELSE Guard(0, "", bearer.sub, 1)

\* authenticate (alias protect); bearer is the token of the Authorization
\* header, NoJwt when there is no Bearer header
authenticate(bearer) ==
    IF bearer = NoJwt THEN Guard(401, "Not authorized, no token", 0, 0)
    ELSE IF JwtVerify(bearer, JWT_SECRET, now) # "ok"
    THEN Guard(401, "Not authorized, invalid token", 0, 0)
    ELSE IF bearer.sub \notin DOMAIN users
    THEN Guard(401, "Not authorized, user not found", 0, 0)
    ELSE Guard(0, "", bearer.sub, 1)

\* isLoggedIn turning away what authenticate turns away
isLoggedInRejecting(bearer) == authenticate(bearer)

\* isLoggedIn: every path ends in next(), none sends a response
isLoggedIn(bearer) ==
    IF bearer = NoJwt THEN Guard(0, "", 0, 1)
    ELSE IF JwtVerify(bearer, JWT_SECRET, now) # "ok" THEN Guard(0, "", 0, 1)
    ELSE IF bearer.sub \notin DOMAIN users THEN Guard(0, "", 0, 1)
    ELSE Guard(0, "", bearer.sub, 1)

\* a request that authenticate answered itself: no handler behind it runs
Rejected(bearer, g) ==
    /\ req' = Req("authenticate", 0, 0, "", "", NoToken, bearer)
    /\ res' = Resp(g.status, g.message)
    /\ mail' = NoMail
    /\ UNCHANGED <<users, nextId, nextRand, now, consumed>>

\* router.post('/', protect, restrictTo('admin'), validateUserCreation, createUser)
CreateUserRoute(bearer, b) ==
    LET g == authenticate(bearer) IN
    IF g.next = 1 THEN CreateUserAs(g.user, b, bearer) ELSE Rejected(bearer, g)

\* router.patch('/:id/status', protect, restrictTo('admin'), updateUserStatus)
UpdateUserStatusRoute(bearer, id, isEmailVerified) ==
    LET g == authenticate(bearer) IN
    IF g.next = 1 THEN UpdateUserStatusAs(g.user, id, isEmailVerified, bearer)
    ELSE Rejected(bearer, g)

\* router.delete('/:id', protect, restrictTo('admin'), deleteUser)
DeleteUserRoute(bearer, id) ==
    LET g == authenticate(bearer) IN
    IF g.next = 1 THEN DeleteUserAs(g.user, id, bearer) ELSE Rejected(bearer, g)

\* a route behind isLoggedIn: the request goes on with or without req.user
IsLoggedInRoute(bearer) ==
    LET g == isLoggedIn(bearer) IN
    /\ req' = Req("isLoggedIn", g.user, 0, "", "", NoToken, bearer)
    /\ res' = Resp(g.status, g.message)
    /\ mail' = NoMail
    /\ UNCHANGED <<users, nextId, nextRand, now, consumed>>

\* ------------------------------------------- refreshToken, logout
\* refreshToken answering 401 for a bad token without clearing the cookie
RefreshFailureKeepCookie(message) == Resp(401, message)

\* the 401 of refreshToken once the cookie was read: clearCookie, then json
RefreshFailure(message) == [Resp(401, message) EXCEPT !.clearCookie = TRUE]

\* refreshToken handing the presented cookie back instead of signing one
RefreshResponseNoRotation(cookie) ==
    IF cookie = NoJwt THEN Resp(401, "No refresh token provided")
    ELSE LET v == JwtVerify(cookie, REFRESH_TOKEN_SECRET, now) IN
         IF v = "TokenExpiredError" THEN RefreshFailure("Refresh token expired")
         ELSE IF v = "JsonWebTokenError" THEN RefreshFailure("Invalid refresh token")
         ELSE IF cookie.sub \notin DOMAIN users THEN RefreshFailure("User not found")
         ELSE [Resp(200, "") EXCEPT !.accessToken = generateAccessToken(cookie.sub),
                                    !.cookie = cookie]

\* refreshToken keeping a list of the tokens it replaced or logout cleared
RefreshResponseRevoking(cookie) ==
    IF cookie = NoJwt THEN Resp(401, "No refresh token provided")
    ELSE LET v == JwtVerify(cookie, REFRESH_TOKEN_SECRET, now) IN
         IF v = "TokenExpiredError" THEN RefreshFailure("Refresh token expired")
         ELSE IF v = "JsonWebTokenError" THEN RefreshFailure("Invalid refresh token")
         ELSE IF cookie \in consumed.discarded
         THEN RefreshFailure("Invalid refresh token")
         ELSE IF cookie.sub \notin DOMAIN users THEN RefreshFailure("User not found")
         ELSE [Resp(200, "") EXCEPT !.accessToken = generateAccessToken(cookie.sub),
                                    !.cookie = generateRefreshToken(cookie.sub)]

\* refreshToken returning the new refresh token in the body as well
RefreshResponseInBody(cookie) ==
    IF cookie = NoJwt THEN Resp(401, "No refresh token provided")
    ELSE LET v == JwtVerify(cookie, REFRESH_TOKEN_SECRET, now) IN
         IF v = "TokenExpiredError" THEN RefreshFailure("Refresh token expired")
         ELSE IF v = "JsonWebTokenError" THEN RefreshFailure("Invalid refresh token")
         ELSE IF cookie.sub \notin DOMAIN users THEN RefreshFailure("User not found")
         ELSE [Resp(200, "") EXCEPT !.accessToken = generateRefreshToken(cookie.sub),
                                    !.cookie = generateRefreshToken(cookie.sub)]

\* what refreshToken answers to the cookie it is sent; accessToken is
\* data.accessToken of the JSON body, cookie the refreshToken cookie it sets
RefreshResponse(cookie) ==
    IF cookie = NoJwt THEN Resp(401, "No refresh token provided")
    ELSE LET v == JwtVerify(cookie, REFRESH_TOKEN_SECRET, now) IN
         IF v = "TokenExpiredError" THEN RefreshFailure("Refresh token expired")
         ELSE IF v = "JsonWebTokenError" THEN RefreshFailure("Invalid refresh token")
         ELSE IF cookie.sub \notin DOMAIN users THEN RefreshFailure("User not found")
         ELSE [Resp(200, "") EXCEPT !.accessToken = generateAccessToken(cookie.sub),
                                    !.cookie = generateRefreshToken(cookie.sub)]

\* the server keeps no record of refresh tokens: consumed only remembers
\* the ones whose cookie a rotation overwrote with another token
RefreshToken(cookie) ==
    LET out == RefreshResponse(cookie) IN
    /\ req' = Req("refreshToken", 0, 0, "", "", NoToken, cookie)
    /\ res' = out
    /\ mail' = NoMail
    /\ consumed' = IF out.status = 200 /\ out.cookie # cookie
                   THEN [consumed EXCEPT !.discarded = @ \cup {cookie}]
                   ELSE consumed
    /\ UNCHANGED <<users, nextId, nextRand, now>>

\* logout clears the cookie and reads nothing; cookie is what the browser held
Logout(cookie) ==
    /\ req' = Req("logout", 0, 0, "", "", NoToken, cookie)
    /\ res' = [Resp(200, "Logged out successfully") EXCEPT !.clearCookie = TRUE]
    /\ mail' = NoMail
    /\ consumed' = IF cookie = NoJwt THEN consumed
                   ELSE [consumed EXCEPT !.discarded = @ \cup {cookie}]
    /\ UNCHANGED <<users, nextId, nextRand, now>>

\* ------------------------------------------------------- request inputs
\* signup bodies: one per branch of the handler
SignupBodies ==
    {<<e, "longenough1", "longenough1", "Ann">> : e \in OptEmails}
    \cup {<<"a@x.com", "longenough1", "longenough2", "Ann">>,
          <<"a@x.com", "short", "short", "Ann">>,
          <<"a@x.com", "longenough1", "longenough1", "">>}

LoginPasswords == {"longenough1", "longenough2", ""}

\* the account the verification and reset flows are exercised on
FlowEmails == {"a@x.com", ""}

\* verification tokens a client may present (0: none given)
PresentedTokens == 0..MaxRand

\* reset tokens a client may present: anything the server could have signed
\* so far, a token signed with another key, a malformed one, or none
PresentedJwts ==
    {[secret |-> RESET_TOKEN_SECRET, sub |-> i, iat |-> t, exp |-> t + ResetTTLSec] :
        i \in 1..MaxUsers, t \in 0..ClockTimestamp(now)}
    \cup {[secret |-> "forged", sub |-> 2, iat |-> 0, exp |-> MaxTime],
          MalformedJwt, NoJwt}

StoredResetTokens == {users[i].passwordResetToken : i \in DOMAIN users}

\* resetPassword bodies: every token with a good password pair, and the
\* bad password pairs with the tokens that would otherwise be accepted
ResetBodies ==
    {<<t, p, p>> : t \in PresentedJwts, p \in {"longenough1", "longenough2"}}
    \cup {<<t, pc[1], pc[2]>> : t \in StoredResetTokens,
            pc \in {<<"longenough1", "longenough2">>, <<"short", "short">>,
                    <<"longenough2", "">>}}

\* createUser bodies: the one role both the validator and the schema take,
\* with and without the verified flag
CreateBodies ==
    {Body("Ann", "a@x.com", "longenough1", "admin", v) : v \in {"absent", "true"}}

\* updateUser bodies: the fields that touch the verification state, each on
\* its own
UpdateBodies ==
    {[NoBody EXCEPT !.email = "b@x.com"]}
    \cup {[NoBody EXCEPT !.isEmailVerified = v] : v \in {"true", "false"}}

\* updateUser bodies with a role: one the schema takes and one only the
\* validator takes
RoleBodies == {[NoBody EXCEPT !.role = r] : r \in {"admin", "student"}}

\* the id strings requests are sent with, in both spellings
IdStrings == {IdString(i, u) : i \in 1..MaxUsers, u \in BOOLEAN}

\* the accounts the admin routes are aimed at: all but the seeded one
TargetIds == 2..MaxUsers

\* the public authentication routes
Next ==
    \/ /\ Tick
       /\ UNCHANGED aside
    \/ /\ \E b \in SignupBodies, ok \in BOOLEAN : Signup(b[1], b[2], b[3], b[4], ok)
       /\ UNCHANGED aside
    \/ /\ \E e \in OptEmails, p \in LoginPasswords : Login(e, p)
       /\ UNCHANGED aside
    \/ /\ \E e \in FlowEmails, ok \in BOOLEAN : ResendVerificationEmail(e, ok)
       /\ UNCHANGED aside
    \/ /\ \E t \in PresentedTokens, e \in FlowEmails, ok \in BOOLEAN :
             VerifyEmail(t, e, ok)
       /\ UNCHANGED aside
    \/ /\ \E e \in FlowEmails, ok \in BOOLEAN : ForgotPassword(e, ok)
       /\ UNCHANGED aside
    \/ /\ \E t \in PresentedJwts : VerifyResetToken(t)
       /\ UNCHANGED aside
    \/ /\ \E b \in ResetBodies : ResetPassword(b[1], b[2], b[3])
       /\ UNCHANGED aside

Spec == Init /\ [][Next]_vars

\* the credential store under every route that writes it: the public flows
\* on their accepting inputs, and the admin user routes
NextStore ==
    \/ /\ Signup("a@x.com", "longenough1", "longenough1", "Ann", TRUE)
       /\ UNCHANGED aside
    \/ /\ ResendVerificationEmail("a@x.com", TRUE)
       /\ UNCHANGED aside
    \/ /\ \E t \in 1..MaxRand : VerifyEmail(t, "a@x.com", TRUE)
       /\ UNCHANGED aside
    \/ /\ ForgotPassword("a@x.com", TRUE)
       /\ UNCHANGED aside
    \/ /\ \E t \in StoredResetTokens \ {NoJwt} :
             ResetPassword(t, "longenough1", "longenough1")
       /\ UNCHANGED aside
    \/ /\ \E b \in CreateBodies : CreateUser(1, b)
       /\ UNCHANGED aside
    \/ /\ \E i \in TargetIds : \E c \in {1, i}, b \in UpdateBodies :
             UpdateUser(c, ToHexString(i), b)
       /\ UNCHANGED aside
    \/ /\ \E i \in TargetIds, v \in {"true", "false"} : UpdateUserStatus(1, i, v)
       /\ UNCHANGED aside

SpecStore == Init /\ [][NextStore]_vars

\* tokens the server can have signed so far for the given accounts
SignedSoFar(ids, secret, ttl) ==
    {[secret |-> secret, sub |-> i, iat |-> t, exp |-> t + ttl] :
        i \in ids, t \in 0..ClockTimestamp(now)}

\* what an Authorization header may carry: an access token, a refresh token
\* in its place, a malformed token, or no header
Bearers ==
    SignedSoFar(1..MaxUsers, JWT_SECRET, AccessTTLSec)
    \cup {generateRefreshToken(1), MalformedJwt, NoJwt}

\* what the refreshToken cookie may carry: a refresh token of an account that
\* signed up, an access token in its place, a malformed token, or no cookie
RefreshCookies ==
    SignedSoFar(TargetIds, REFRESH_TOKEN_SECRET, RefreshTTLSec)
    \cup {generateAccessToken(1), MalformedJwt, NoJwt}

\* the cookie a browser still holds when it logs out: one that refreshToken
\* would accept, or none
LogoutCookies == {c \in RefreshCookies : RefreshResponse(c).status = 200} \cup {NoJwt}

\* the callers of the routes that create and verify accounts: every account
\* with a token signed now, and a caller without a token
CallerBearers == {generateAccessToken(i) : i \in DOMAIN users} \cup {NoJwt}

\* the verification tokens in the collection
StoredVerificationTokens ==
    {users[i].emailVerificationToken : i \in DOMAIN users} \ {NoToken}

\* sessions: an account signs up, verifies, logs in, refreshes and logs out,
\* calls guarded routes, and is deleted by the administrator
NextSession ==
    \/ /\ Tick
       /\ UNCHANGED aside
    \/ /\ Signup("a@x.com", "longenough1", "longenough1", "Ann", TRUE)
       /\ UNCHANGED aside
    \/ /\ \E t \in StoredVerificationTokens : VerifyEmail(t, "a@x.com", TRUE)
       /\ UNCHANGED aside
    \/ /\ Login("a@x.com", "longenough1")
       /\ UNCHANGED aside
    \/ /\ \E c \in RefreshCookies : RefreshToken(c)
       /\ UNCHANGED aside
    \/ /\ \E c \in LogoutCookies : Logout(c)
       /\ UNCHANGED aside
    \/ /\ \E b \in CallerBearers :
             CreateUserRoute(b, Body("Ann", "a@x.com", "longenough1", "admin", "true"))
       /\ UNCHANGED aside
    \/ /\ \E b \in CallerBearers, i \in TargetIds : UpdateUserStatusRoute(b, i, "true")
       /\ UNCHANGED aside
    \/ /\ \E b \in Bearers, i \in TargetIds :
             DeleteUserRoute(b, ToHexString(i))
       /\ UNCHANGED aside
    \/ /\ \E b \in Bearers : IsLoggedInRoute(b)
       /\ UNCHANGED aside

SpecSession == Init /\ [][NextSession]_vars

\* the user routes and the handlers that put accounts in their response
NextRead ==
    \/ /\ \E ok \in BOOLEAN :
             Signup("a@x.com", "longenough1", "longenough1", "Ann", ok)
       /\ UNCHANGED aside
    \/ /\ \E e \in Emails, p \in {"longenough1", "longenough2"} : Login(e, p)
       /\ UNCHANGED aside
    \/ /\ \E b \in CreateBodies : CreateUser(1, b)
       /\ UNCHANGED aside
    \/ /\ \E c \in DOMAIN users, id \in IdStrings,
                b \in UpdateBodies \cup RoleBodies : UpdateUser(c, id, b)
       /\ UNCHANGED aside
    \/ /\ \E c \in DOMAIN users : GetUsers(c)
       /\ UNCHANGED aside
    \/ /\ \E c \in DOMAIN users, i \in 1..MaxUsers : GetUserById(c, i)
       /\ UNCHANGED aside

SpecRead == Init /\ [][NextRead]_vars

\* ------------------------------------------- handlers served concurrently
\* Node interleaves handlers at their awaits.  Each handler that writes an
\* email is cut at the await of its write: its first step runs the checks and
\* the existence pre-check, its second step is the write, and other requests
\* may be served in between.

\* the unique index on email (src/unnamed/part_003): whether the storage
\* layer refuses, with E11000, to store email in a document other than except
DuplicateKeyNoIndex(email, except) == FALSE

DuplicateKey(email, except) ==
    \E i \in DOMAIN users \ {except} : users[i].email = email

\* answer a request at once, or suspend it at its write
Suspend(r) ==
    /\ BagCardinality(pending) < MaxInFlight
    /\ pending' = pending (+) SetToBag({r})
    /\ UNCHANGED <<users, nextId, nextRand, now, req, res, mail, consumed,
                   profiles>>

Answer(r, out) ==
    /\ req' = r
    /\ res' = out
    /\ mail' = NoMail
    /\ UNCHANGED <<users, nextId, nextRand, now, consumed, profiles, pending>>

\* signup, lines 681-713: validation and User.findOne({email})
SignupBegin(email, password, confirmPassword, fullName) ==
    LET out == SignupOutcome(email, password, confirmPassword, fullName) IN
    IF out.status = 201
    THEN Suspend(InFlight("signup", 0, 0,
                          Body(fullName, email, password, "", "absent"), NoDoc))
    ELSE Answer(Req("signup", 0, 0, email, password, NoToken, NoJwt), out)

\* signup, lines 715-773: the token, User.create, the email and the answer;
\* the catch turns E11000 into 409
SignupCreate(r, mailOk) ==
    LET dup == DuplicateKey(r.body.email, 0) IN
    /\ r.op = "signup"
    /\ nextRand <= MaxRand
    /\ dup \/ nextId <= MaxUsers
    /\ pending' = pending (-) SetToBag({r})
    /\ req' = Req("signup", 0, 0, r.body.email, r.body.password, NoToken, NoJwt)
    /\ nextRand' = nextRand + 1
    /\ IF dup
       THEN /\ res' = Resp(409, "Email already exists")
            /\ mail' = NoMail
            /\ UNCHANGED <<users, nextId>>
       ELSE /\ users' = users @@ (nextId :>
                  NewUser(r.body.email, BcryptHash(r.body.password),
                          r.body.fullName, "user", FALSE, nextRand,
                          now + VerifyTTL))
            /\ res' = WithData(Resp(201, "User created successfully. Please check your email to verify your account."),
                               <<sanitizeUser(users'[nextId])>>)
            /\ nextId' = nextId + 1
            /\ mail' = Mail("verification", r.body.email, nextRand, NoJwt, mailOk)
    /\ UNCHANGED <<now, consumed, profiles>>

\* createUser, lines 58-88: the validation result and User.findOne({email})
CreateUserBegin(caller, b) ==
    LET out == IF restrictTo({"admin"}, caller) THEN CreateUserOutcome(b)
               ELSE Forbidden IN
    /\ caller \in DOMAIN users
    /\ IF out.status = 201
       THEN Suspend(InFlight("createUser", caller, 0, b, NoDoc))
       ELSE Answer(Req("createUser", caller, 0, b.email, b.password, NoToken,
                       NoJwt), out)

\* createUser, lines 90-121: user.save() and the answer; the catch answers
\* every error, E11000 included, with 500
CreateUserSave(r) ==
    LET dup == DuplicateKey(r.body.email, 0) IN
    /\ r.op = "createUser"
    /\ dup \/ nextId <= MaxUsers
    /\ pending' = pending (-) SetToBag({r})
    /\ req' = Req("createUser", r.caller, 0, r.body.email, r.body.password,
                  NoToken, NoJwt)
    /\ mail' = NoMail
    /\ IF dup
       THEN /\ res' = Resp(500, "Server error while creating user")
            /\ UNCHANGED <<users, nextId>>
       ELSE /\ users' = users @@ (nextId :>
                  NewUser(r.body.email, BcryptHash(r.body.password),
                          r.body.fullName, r.body.role,
                          r.body.isEmailVerified = "true", NoToken, NoDate))
            /\ res' = WithData(Resp(201, "User created successfully"),
                               <<toJSON(DefaultPaths(users'[nextId]))>>)
            /\ nextId' = nextId + 1
    /\ UNCHANGED <<nextRand, now, consumed, profiles>>

\* updateUser, lines 276-355: the checks, User.findById and the email
\* pre-check; the document read stays with the request
UpdateUserBegin(caller, id, b) ==
    LET out == UpdateUserOutcome(caller, id, b)
        oid == CastObjectId(id) IN
    /\ caller \in DOMAIN users
    /\ IF out.status = 200
       THEN Suspend(InFlight("updateUser", caller, oid, b, users[oid]))
       ELSE Answer(Req("updateUser", caller, oid, b.email, b.password, NoToken,
                       NoJwt), out)

\* document.save(): only the paths the handler modified are written
SaveModified(read, updated, current) ==
    [f \in DOMAIN current |->
        IF updated[f] # read[f] THEN updated[f] ELSE current[f]]

\* updateUser, lines 357-387: the field updates, user.save() and the answer;
\* the catch answers every error with 500
UpdateUserSave(r) ==
    LET isAdmin == r.caller \in DOMAIN users /\ users[r.caller].role = "admin"
        updated == UpdatedUser(r.doc, r.body, isAdmin)
        failed == \/ r.id \notin DOMAIN users
                  \/ /\ updated.email # r.doc.email
                     /\ DuplicateKey(updated.email, r.id) IN
    /\ r.op = "updateUser"
    /\ pending' = pending (-) SetToBag({r})
    /\ req' = Req("updateUser", r.caller, r.id, r.body.email, r.body.password,
                  NoToken, NoJwt)
    /\ mail' = NoMail
    /\ IF failed
       THEN /\ res' = Resp(500, "Server error while updating user")
            /\ UNCHANGED users
       ELSE /\ users' = [users EXCEPT
                           ![r.id] = SaveModified(r.doc, updated, users[r.id])]
            /\ res' = WithData(Resp(200, "User updated successfully"),
                               <<toJSON(DefaultPaths(users'[r.id]))>>)
    /\ UNCHANGED <<nextId, nextRand, now, consumed, profiles>>

\* the emails the concurrent requests compete for
RaceEmails == {"a@x.com", "b@x.com"}

NextRace ==
    \/ /\ \E e \in RaceEmails : SignupBegin(e, "longenough1", "longenough1", "Ann")
       /\ UNCHANGED apart
    \/ /\ \E r \in BagToSet(pending), mailOk \in BOOLEAN : SignupCreate(r, mailOk)
       /\ UNCHANGED apart
    \/ /\ \E e \in RaceEmails :
             CreateUserBegin(1, Body("Ann", e, "longenough1", "admin", "absent"))
       /\ UNCHANGED apart
    \/ /\ \E r \in BagToSet(pending) : CreateUserSave(r)
       /\ UNCHANGED apart
    \/ /\ \E i \in DOMAIN users, e \in RaceEmails :
             UpdateUserBegin(1, ToHexString(i), [NoBody EXCEPT !.email = e])
       /\ UNCHANGED apart
    \/ /\ \E r \in BagToSet(pending) : UpdateUserSave(r)
       /\ UNCHANGED apart

SpecRace == Init /\ [][NextRace]_vars

\* ---------------------------------------- bulk deletion and the profiles
\* a request of the bulk and profile routes, with the documents it names
ReqIds(op, caller, ids) ==
    [Req(op, caller, 0, "", "", NoToken, NoJwt) EXCEPT !.ids = ids]

\* bulkDeleteUsers behind protect and restrictTo('admin'); userIds is the
\* array of id strings of the body
BulkDeleteUsers(caller, userIds) ==
    LET oids == {CastObjectId(id) : id \in userIds} IN
    /\ caller \in DOMAIN users
    /\ req' = ReqIds("bulkDeleteUsers", caller, oids)
    /\ mail' = NoMail
    /\ IF ~restrictTo({"admin"}, caller)
       THEN res' = Forbidden /\ UNCHANGED users
       ELSE IF userIds = {}
       THEN res' = Resp(400, "User IDs array is required") /\ UNCHANGED users
       ELSE IF \E id \in userIds : IsOwnId(caller, id)
       THEN res' = Resp(400, "Cannot delete your own account") /\ UNCHANGED users
       ELSE /\ users' = [i \in DOMAIN users \ oids |-> users[i]]
            /\ res' = Resp(200, "users deleted successfully")
    /\ UNCHANGED <<nextId, nextRand, now, consumed>>

\* new Profile({userId, bio, ...}); bio stands for the five optional strings
NewProfile(userId, bio) == [userId |-> userId, bio |-> bio]

\* Profile.find({userId}): the matching documents
FindProfiles(userId) == {p \in BagToSet(profiles) : p.userId = userId}

\* Profile.countDocuments({userId})
CountProfiles(userId) ==
    BagCardinality([p \in FindProfiles(userId) |-> profiles[p]])

\* the document findOne, findOneAndUpdate and findOneAndDelete pick
FindOneProfile(userId) == CHOOSE p \in FindProfiles(userId) : TRUE

\* the unique index on userId: whether the storage layer refuses, with
\* E11000, another profile of userId
DuplicateProfileKeyNoIndex(userId) == FALSE

DuplicateProfileKey(userId) == FindProfiles(userId) # {}

\* createProfile, lines 65-86: Profile.findOne({userId: req.user._id})
CreateProfileBegin(caller, bio) ==
    /\ caller \in DOMAIN users
    /\ IF FindProfiles(caller) # {}
       THEN Answer(ReqIds("createProfile", caller, {caller}),
                   Resp(400, "Profile already exists for this user"))
       ELSE Suspend(InFlight("createProfile", caller, caller,
                             [NoBody EXCEPT !.fullName = bio], NoDoc))

\* createProfile, lines 88-111: profile.save() runs the pre('save') hook,
\* which fails when the user is gone, and then the insert; the catch answers
\* every error with 500
CreateProfileSave(r) ==
    /\ r.op = "createProfile"
    /\ pending' = pending (-) SetToBag({r})
    /\ req' = ReqIds("createProfile", r.caller, {r.caller})
    /\ mail' = NoMail
    /\ IF r.caller \notin DOMAIN users \/ DuplicateProfileKey(r.caller)
       THEN /\ res' = Resp(500, "Server error while creating profile")
            /\ UNCHANGED profiles
       ELSE /\ profiles' = profiles (+) SetToBag({NewProfile(r.caller, r.body.fullName)})
            /\ res' = Resp(201, "Profile created successfully")
    /\ UNCHANGED <<users, nextId, nextRand, now, consumed>>

\* updateProfile: Profile.findOneAndUpdate({userId: id}, {bio, ...},
\* {new: true, runValidators: true}), one atomic operation of the database
UpdateProfile(caller, id, bio) ==
    LET oid == CastObjectId(id)
        found == FindProfiles(oid) IN
    /\ caller \in DOMAIN users
    /\ req' = ReqIds("updateProfile", caller, {oid})
    /\ mail' = NoMail
    /\ IF users[caller].role # "admin" /\ ToHexString(caller) # id
       THEN /\ res' = Resp(403, "Not authorized to update this profile")
            /\ UNCHANGED profiles
       ELSE IF found = {}
       THEN res' = Resp(404, "Profile not found") /\ UNCHANGED profiles
       ELSE /\ profiles' = (profiles (-) SetToBag({FindOneProfile(oid)}))
                            (+) SetToBag({[FindOneProfile(oid) EXCEPT !.bio = bio]})
            /\ res' = Resp(200, "Profile updated successfully")
    /\ UNCHANGED <<users, nextId, nextRand, now, consumed, pending>>

\* deleteProfile: Profile.findOneAndDelete({userId: id})
DeleteProfile(caller, id) ==
    LET oid == CastObjectId(id)
        found == FindProfiles(oid) IN
    /\ caller \in DOMAIN users
    /\ req' = ReqIds("deleteProfile", caller, {oid})
    /\ mail' = NoMail
    /\ IF users[caller].role # "admin" /\ ToHexString(caller) # id
       THEN /\ res' = Resp(403, "Not authorized to delete this profile")
            /\ UNCHANGED profiles
       ELSE IF found = {}
       THEN res' = Resp(404, "Profile not found") /\ UNCHANGED profiles
       ELSE /\ profiles' = profiles (-) SetToBag({FindOneProfile(oid)})
            /\ res' = Resp(200, "Profile deleted successfully")
    /\ UNCHANGED <<users, nextId, nextRand, now, consumed, pending>>

\* the userIds arrays, each written in one spelling
IdArrays ==
    {{IdString(i, u) : i \in S} : S \in SUBSET (1..MaxUsers), u \in BOOLEAN}

NextProfile ==
    \/ /\ Signup("a@x.com", "longenough1", "longenough1", "Ann", TRUE)
       /\ UNCHANGED aside
    \/ /\ \E c \in DOMAIN users : CreateProfileBegin(c, "hello")
       /\ UNCHANGED apart
    \/ /\ \E r \in BagToSet(pending) : CreateProfileSave(r)
       /\ UNCHANGED apart
    \/ /\ \E c \in DOMAIN users, id \in IdStrings : UpdateProfile(c, id, "again")
       /\ UNCHANGED apart
    \/ /\ \E c \in DOMAIN users, id \in IdStrings : DeleteProfile(c, id)
       /\ UNCHANGED apart
    \/ /\ \E c \in DOMAIN users, id \in IdStrings : DeleteUserAs(c, id, NoJwt)
       /\ UNCHANGED aside
    \/ /\ \E c \in DOMAIN users, ids \in IdArrays : BulkDeleteUsers(c, ids)
       /\ UNCHANGED aside

SpecProfile == Init /\ [][NextProfile]_vars

\* -------------------------------------- tokens consumed by concurrent requests
\* verifyEmail and resetPassword cut at the await of user.save(): the lookup
\* is one query, the write another.  consumed.verifiedAgain and
\* consumed.resetAgain remember the tokens a request was answered 200 for
\* after an earlier request had consumed them.

\* the filter of the update that save() sends, with the token added to it
SaveMatchesWithToken(r) ==
    /\ r.id \in DOMAIN users
    /\ users[r.id].emailVerificationToken = r.doc.emailVerificationToken
    /\ users[r.id].passwordResetToken = r.doc.passwordResetToken

\* the filter of the update that save() sends: the _id of the document
SaveMatches(r) == r.id \in DOMAIN users

\* verifyEmail, lines 971-995: the parameters and the lookup
VerifyEmailBegin(token, email) ==
    LET found == FindForVerification(email, token)
        r == Req("verifyEmail", 0, 0, email, "", token, NoJwt) IN
    IF token = NoToken \/ email = ""
    THEN Answer(r, Resp(400, "Missing token or email"))
    ELSE IF found = {}
    THEN Answer(r, Resp(400, "Invalid or expired verification token"))
    ELSE Suspend(InFlight("verifyEmail", 0, Min(found),
                          [NoBody EXCEPT !.email = email], users[Min(found)]))

\* verifyEmail, lines 997-1024: the write, the welcome email, the answer
VerifyEmailSave(r, mailOk) ==
    LET pair == <<r.body.email, r.doc.emailVerificationToken>> IN
    /\ r.op = "verifyEmail"
    /\ pending' = pending (-) SetToBag({r})
    /\ req' = Req("verifyEmail", 0, r.id, r.body.email, "",
                  r.doc.emailVerificationToken, NoJwt)
    /\ IF ~SaveMatches(r)
       THEN /\ res' = Resp(500, "Internal server error")
            /\ mail' = NoMail
            /\ UNCHANGED <<users, consumed>>
       ELSE /\ users' = [users EXCEPT ![r.id] =
                  SaveModified(r.doc, MarkVerified(r.doc), users[r.id])]
            /\ mail' = Mail("welcome", r.body.email, NoToken, NoJwt, mailOk)
            /\ res' = Resp(200, "Email verified successfully. You can now log in.")
            /\ consumed' = [consumed EXCEPT
                  !.verify = @ \cup {pair},
                  !.verifiedAgain = IF pair \in consumed.verify
                                   THEN @ \cup {pair} ELSE @]
    /\ UNCHANGED <<nextId, nextRand, now, profiles>>

\* resetPassword, lines 1145-1185: the checks, jwt.verify and the lookup
ResetPasswordBegin(token, newPassword, confirmPassword) ==
    LET chk == ResetPasswordCheck(token, newPassword, confirmPassword) IN
    IF chk.status # 200
    THEN Answer(Req("resetPassword", 0, 0, "", newPassword, NoToken, token), chk)
    ELSE Suspend(InFlight("resetPassword", 0, Min(FindForReset(token)),
                          [NoBody EXCEPT !.password = newPassword],
                          users[Min(FindForReset(token))]))

\* resetPassword, lines 1187-1208: the hash, the write, the email, the answer
ResetPasswordSave(r) ==
    LET token == r.doc.passwordResetToken IN
    /\ r.op = "resetPassword"
    /\ pending' = pending (-) SetToBag({r})
    /\ req' = Req("resetPassword", 0, r.id, "", r.body.password, NoToken, token)
    /\ IF ~SaveMatches(r)
       THEN /\ res' = Resp(500, "Internal server error")
            /\ mail' = NoMail
            /\ UNCHANGED <<users, consumed>>
       ELSE /\ users' = [users EXCEPT ![r.id] =
                  SaveModified(r.doc, ApplyReset(r.doc, r.body.password),
                               users[r.id])]
            /\ mail' = Mail("passwordResetSuccess", "", NoToken, NoJwt, FALSE)
            /\ res' = Resp(200, "Password has been reset successfully")
            /\ consumed' = [consumed EXCEPT
                  !.reset = @ \cup {token},
                  !.resetAgain = IF token \in consumed.reset
                                THEN @ \cup {token} ELSE @]
    /\ UNCHANGED <<nextId, nextRand, now, profiles>>

NextConsume ==
    \/ /\ Signup("a@x.com", "longenough1", "longenough1", "Ann", TRUE)
       /\ UNCHANGED aside
    \/ /\ \E t \in PresentedTokens : VerifyEmailBegin(t, "a@x.com")
       /\ UNCHANGED apart
    \/ /\ \E r \in BagToSet(pending), ok \in BOOLEAN : VerifyEmailSave(r, ok)
       /\ UNCHANGED apart
    \/ /\ ForgotPassword("a@x.com", TRUE)
       /\ UNCHANGED aside
    \/ /\ \E t \in StoredResetTokens :
             ResetPasswordBegin(t, "longenough2", "longenough2")
       /\ UNCHANGED apart
    \/ /\ \E r \in BagToSet(pending) : ResetPasswordSave(r)
       /\ UNCHANGED apart

SpecConsume == Init /\ [][NextConsume]_vars
\* ------------------------------------------- a browser holding the cookie
\* what the browser does with the refreshToken cookie of an answer:
\* res.cookie stores it, res.clearCookie drops it, otherwise it stays
SetCookie(held, out) ==
    IF out.cookie # NoJwt THEN out.cookie
    ELSE IF out.clearCookie THEN NoJwt
    ELSE held

\* login from the browser: the cookie of line 816 goes to the jar
LoginInBrowser(email, password) ==
    /\ Login(email, password)
    /\ jar' = SetCookie(jar, res')
    /\ UNCHANGED <<profiles, pending, contacts, mailer>>

\* refreshToken from the browser, with the cookie it holds (line 838)
RefreshInBrowser ==
    /\ jar # NoJwt
    /\ RefreshToken(jar)
    /\ jar' = SetCookie(jar, res')
    /\ UNCHANGED <<profiles, pending, contacts, mailer>>

\* an account is created, logs in from a browser, has its verification
\* state changed by the administrator or by its own email change, and
\* refreshes with the cookie the browser holds
NextIssue ==
    \/ /\ Tick /\ UNCHANGED aside
    \/ /\ \E b \in CreateBodies : CreateUser(1, b) /\ UNCHANGED aside
    \/ /\ \E e \in Emails : LoginInBrowser(e, "longenough1")
    \/ /\ RefreshInBrowser
    \/ /\ \E i \in DOMAIN users, v \in {"true", "false"} :
             UpdateUserStatus(1, i, v)
       /\ UNCHANGED aside
    \/ /\ \E c \in DOMAIN users, b \in UpdateBodies :
             UpdateUser(c, ToHexString(c), b)
       /\ UNCHANGED aside

SpecIssue == Init /\ [][NextIssue]_vars

\* ------------------------------------------ tokens of one kind for another
\* every token the server could have signed so far for an existing account:
\* access tokens, refresh tokens and password-reset tokens
KindTokens ==
    SignedSoFar(DOMAIN users, JWT_SECRET, AccessTTLSec)
    \cup SignedSoFar(DOMAIN users, REFRESH_TOKEN_SECRET, RefreshTTLSec)
    \cup SignedSoFar(DOMAIN users, RESET_TOKEN_SECRET, ResetTTLSec)

\* the seeded account logs in and asks for a password reset, and tokens of
\* every kind are presented as bearer token, as refresh cookie and as reset
\* token
NextKinds ==
    \/ /\ Tick /\ UNCHANGED aside
    \/ /\ Login("root@x.com", "longenough1") /\ UNCHANGED aside
    \/ /\ ForgotPassword("root@x.com", TRUE) /\ UNCHANGED aside
    \/ /\ \E t \in KindTokens : UpdateUserStatusRoute(t, 1, "true")
       /\ UNCHANGED aside
    \/ /\ \E t \in KindTokens : RefreshToken(t) /\ UNCHANGED aside
    \/ /\ \E t \in KindTokens : VerifyResetToken(t) /\ UNCHANGED aside
    \/ /\ \E t \in KindTokens : ResetPassword(t, "longenough2", "longenough2")
       /\ UNCHANGED aside

SpecKinds == Init /\ [][NextKinds]_vars

\* -------------------------------------------------------- the contact form
\* the characters \w matches among those the addresses below are written in
WordChars == {"a", "n", "x", "c", "o", "m", "i", "f"}

\* runs of atom characters joined by single separators: atom+ (sep? atom+)*
AtomsSeparated(s, atoms, seps) ==
    /\ Len(s) > 0
    /\ s[1] \in atoms
    /\ s[Len(s)] \in atoms
    /\ \A i \in 1..Len(s) : s[i] \in atoms \cup seps
    /\ \A i \in 1..(Len(s) - 1) : s[i] \in seps => s[i + 1] \in atoms

\* body('email').isEmail(): one @, a local part of dot-separated atoms (+ and
\* - are atom characters), a domain of dot-separated labels whose last one
\* has two letters or more
isEmail(e) ==
    \E at \in 1..Len(e) :
        LET d == SubSeq(e, at + 1, Len(e)) IN
        /\ e[at] = "@"
        /\ AtomsSeparated(SubSeq(e, 1, at - 1), WordChars \cup {"+", "-"}, {"."})
        /\ AtomsSeparated(d, WordChars, {".", "-"})
        /\ \E dot \in 1..Len(d) :
              /\ d[dot] = "."
              /\ Len(d) - dot >= 2
              /\ \A j \in (dot + 1)..Len(d) : d[j] \in WordChars

\* the match of contactSchema.email:
\* /^\w+([.-]?\w+)*@\w+([.-]?\w+)*(\.\w{2,3})+$/
SchemaEmailMatch(e) ==
    \E at \in 1..Len(e) :
        LET d == SubSeq(e, at + 1, Len(e)) IN
        /\ e[at] = "@"
        /\ AtomsSeparated(SubSeq(e, 1, at - 1), WordChars, {".", "-"})
        /\ \E k \in {2, 3} :
              /\ Len(d) >= k + 2
              /\ d[Len(d) - k] = "."
              /\ \A j \in (Len(d) - k + 1)..Len(d) : d[j] \in WordChars
              /\ AtomsSeparated(SubSeq(d, 1, Len(d) - k - 1), WordChars,
                                {".", "-"})

\* contactValidation: name and message not empty, email an address; phone
\* and subject are optional and left out
contactValidation(form) ==
    form.name # "" /\ form.message # "" /\ isEmail(form.email)

\* the addresses a form may carry: ann@x.com, ann@x.info, a+n@x.com, and one
\* without @
ContactEmails ==
    {<<"a", "n", "n", "@", "x", ".", "c", "o", "m">>,
     <<"a", "n", "n", "@", "x", ".", "i", "n", "f", "o">>,
     <<"a", "+", "n", "@", "x", ".", "c", "o", "m">>,
     <<"a", "n", "n">>}

Forms ==
    {[name |-> "Ann", email |-> e, message |-> m] :
        e \in ContactEmails, m \in {"hello", ""}}

\* new Contact({...}): status takes the default of the schema
NewContact(id, form) ==
    [id |-> id, name |-> form.name, email |-> form.email,
     message |-> form.message, status |-> "new", adminResponse |-> ""]

ReqForm(op, caller, id, form) ==
    [Req(op, caller, id, "", "", NoToken, NoJwt) EXCEPT !.form = form]

\* submitContactForm, lines 937-962: the validation result, new Contact and
\* newContact.save(), whose validation error the catch answers with 500
SubmitContactFormSave(form) ==
    IF ~contactValidation(form)
    THEN /\ Answer(ReqForm("submitContactForm", 0, 0, form),
                   Resp(400, "Validation failed"))
         /\ UNCHANGED apart
    ELSE IF ~SchemaEmailMatch(form.email)
    THEN /\ Answer(ReqForm("submitContactForm", 0, 0, form),
                   Resp(500, "Internal server error. Please try again later."))
         /\ UNCHANGED apart
    ELSE /\ Len(contacts) < MaxContacts
         /\ Suspend(InFlight("submitContactForm", 0, Len(contacts) + 1, form,
                             NoDoc))
         /\ contacts' = Append(contacts, NewContact(Len(contacts) + 1, form))
         /\ UNCHANGED <<jar, mailer>>

\* submitContactForm, lines 964-1003: the notification, then the auto-reply
\* unless the notification threw, both swallowed, and the 201; the catch of
\* sendContactNotificationEmail sets the gmailFailed of the controller
SubmitContactFormMail(r, notifyOk, replyOk) ==
    /\ r.op = "submitContactForm"
    /\ pending' = pending (-) SetToBag({r})
    /\ req' = ReqForm("submitContactForm", 0, r.id, r.body)
    /\ res' = WithData(Resp(201, "Message sent successfully! We will get back to you within 24 hours."),
                       <<[id |-> r.id, name |-> r.body.name,
                          email |-> r.body.email]>>)
    /\ mail' = IF notifyOk
               THEN Mail("autoReply", r.body.email, NoToken, NoJwt, replyOk)
               ELSE Mail("contactNotification", <<>>, NoToken, NoJwt, FALSE)
    /\ mailer' = [mailer EXCEPT
          !.config = createTransporter(mailer.EMAIL_HOST,
                                       mailer.contactGmailFailed),
          !.contactGmailFailed =
              @ \/ (~notifyOk /\ IncludesGmail(mailer.EMAIL_HOST))]
    /\ UNCHANGED <<users, nextId, nextRand, now, consumed, profiles, jar,
                   contacts>>

\* Contact.findById
FindContactById(id) ==
    {k \in DOMAIN contacts : contacts[k].id = CastObjectId(id)}

\* what sendAdminReply answers before it sends: the validation result, the
\* lookup, then the role of the caller
AdminReplyRefusal(caller, id, message) ==
    IF message = "" THEN Resp(400, "Validation failed")
    ELSE IF FindContactById(id) = {}
    THEN Resp(404, "Contact form submission not found")
    ELSE IF users[caller].role # "admin"
    THEN Resp(403, "Not authorized to reply to contact submissions")
    ELSE Resp(0, "none")

\* sendAdminReply: a gmail transporter of its own, sendMail, then the
\* response and the status written with contact.save(); a failed send goes
\* to the catch before anything is written
SendAdminReply(caller, id, message, mailOk) ==
    LET refusal == AdminReplyRefusal(caller, id, message) IN
    /\ caller \in DOMAIN users
    /\ req' = ReqForm("sendAdminReply", caller, CastObjectId(id),
                      [NoForm EXCEPT !.message = message])
    /\ IF refusal.status # 0
       THEN /\ res' = refusal
            /\ mail' = NoMail
            /\ UNCHANGED <<contacts, mailer>>
       ELSE LET k == Min(FindContactById(id)) IN
            /\ mail' = Mail("adminReply", contacts[k].email, NoToken, NoJwt,
                            mailOk)
            /\ mailer' = [mailer EXCEPT
                  !.config = [host |-> <<"smtp", "gmail", "com">>,
                              user |-> "EMAIL_USER"]]
            /\ res' = IF mailOk THEN Resp(200, "Reply sent successfully")
                      ELSE Resp(500, "Server error while sending reply")
            /\ contacts' = IF mailOk
                           THEN [contacts EXCEPT ![k].status = "replied",
                                                 ![k].adminResponse = message]
                           ELSE contacts
    /\ UNCHANGED <<users, nextId, nextRand, now, consumed, profiles, pending,
                   jar>>

\* the identifiers a reply may name: those of the contacts the collection
\* can hold and one beyond
ContactIds == {ToHexString(i) : i \in 1..(MaxContacts + 1)}

\* visitors submit the form while an account signs up and callers of either
\* role send replies
NextContact ==
    \/ /\ Signup("a@x.com", "longenough1", "longenough1", "Ann", TRUE)
       /\ UNCHANGED aside
    \/ /\ \E form \in Forms : SubmitContactFormSave(form)
    \/ /\ \E r \in BagToSet(pending), notifyOk, replyOk \in BOOLEAN :
             SubmitContactFormMail(r, notifyOk, replyOk)
    \/ /\ \E c \in DOMAIN users, id \in ContactIds, m \in {"thanks", ""},
             mailOk \in BOOLEAN : SendAdminReply(c, id, m, mailOk)

SpecContact == Init /\ [][NextContact]_vars

\* ------------------------------------------------ the fallback of the mailer
\* what a sender of emailVerification.js does around the mail of this step:
\* createTransporter with the flag of the module, and the flag set in the
\* catch of the senders that set it, when EMAIL_HOST is a gmail host
Dispatch ==
    mailer' =
        IF mail'.kind = "" THEN mailer
        ELSE [mailer EXCEPT
                !.config = createTransporter(mailer.EMAIL_HOST,
                                             mailer.gmailFailed),
                !.gmailFailed =
                    @ \/ (/\ ~mail'.ok
                          /\ mail'.kind \in FlagSenders
                          /\ IncludesGmail(mailer.EMAIL_HOST))]

\* the process started with any of the hosts
InitMail == \E host \in Hosts : Boot(host)

\* an account signs up, verifies and resets its password while visitors
\* submit the contact form; every send may fail
NextMail ==
    \/ /\ \E ok \in BOOLEAN :
             Signup("a@x.com", "longenough1", "longenough1", "Ann", ok)
       /\ Dispatch
       /\ UNCHANGED <<profiles, pending, jar, contacts>>
    \/ /\ \E t \in StoredVerificationTokens, ok \in BOOLEAN :
             VerifyEmail(t, "a@x.com", ok)
       /\ Dispatch
       /\ UNCHANGED <<profiles, pending, jar, contacts>>
    \/ /\ \E ok \in BOOLEAN : ForgotPassword("a@x.com", ok)
       /\ Dispatch
       /\ UNCHANGED <<profiles, pending, jar, contacts>>
    \/ /\ \E t \in StoredResetTokens :
             ResetPassword(t, "longenough2", "longenough2")
       /\ Dispatch
       /\ UNCHANGED <<profiles, pending, jar, contacts>>
    \/ /\ SubmitContactFormSave([name |-> "Ann", message |-> "hello",
              email |-> <<"a", "n", "n", "@", "x", ".", "c", "o", "m">>])
    \/ /\ \E r \in BagToSet(pending), notifyOk, replyOk \in BOOLEAN :
             SubmitContactFormMail(r, notifyOk, replyOk)

SpecMail == InitMail /\ [][NextMail]_vars

\* ================================================================ claims
\* a step that serves a request of the given handler (the clock stands still)
Serves(op) == req'.op = op /\ now' = now

AccountOf(email) == users[Min(FindByEmail(email))]

VerifyFirst == Resp(401, "Please verify your email address before logging in")
InvalidOrExpiredToken == Resp(400, "Invalid or expired verification token")

\* C1: a login with an email and a password supplied, for an account that is
\* not verified, is answered 401 "verify your email" whether or not the
\* password is the account's, with no access token and no refresh cookie.
C1_UnverifiedLoginRejected ==
    (/\ req.op = "login" /\ req.email # "" /\ req.password # ""
     /\ FindByEmail(req.email) # {}
     /\ ~AccountOf(req.email).isEmailVerified)
    => res = VerifyFirst

\* an unverified account was refused although the password was right
C1_Witness ==
    /\ req.op = "login"
    /\ FindByEmail(req.email) # {}
    /\ ~AccountOf(req.email).isEmailVerified
    /\ BcryptCompare(req.password, AccountOf(req.email).password)
    /\ res = VerifyFirst

\* C2: once verifyEmail has succeeded for (email, token), every later
\* verifyEmail with that pair is answered "invalid or expired" and writes
\* nothing.
C2_VerificationTokenSingleUse ==
    [][(Serves("verifyEmail") /\ <<req'.email, req'.token>> \in consumed.verify)
        => (res' = InvalidOrExpiredToken /\ users' = users)]_vars

\* a consumed pair was presented again and refused
C2_Witness ==
    /\ req.op = "verifyEmail"
    /\ <<req.email, req.token>> \in consumed.verify
    /\ res = InvalidOrExpiredToken

\* C3: after a resend for an unverified account, the token it replaced is
\* refused by verifyEmail from then on, and the token it mailed is accepted
\* when presented next, before VerifyTTL has passed.
C3_ResendReplacesToken ==
    [][/\ (Serves("verifyEmail") /\ <<req'.email, req'.token>> \in consumed.superseded)
          => (res' = InvalidOrExpiredToken /\ users' = users)
       /\ (/\ Serves("verifyEmail")
           /\ req.op = "resendVerificationEmail" /\ mail.kind = "verification"
           /\ req'.email = req.email /\ req'.token = mail.token
           /\ now < mail.at + VerifyTTL)
          => (/\ res'.status = 200
              /\ AccountOf(req.email)'.isEmailVerified)]_vars

\* an account was verified with a token that a resend had issued in place of
\* an earlier one
C3_Witness ==
    /\ req.op = "verifyEmail" /\ res.status = 200
    /\ \E t \in 1..MaxRand :
          /\ <<req.email, t>> \in consumed.superseded
          /\ t < req.token

\* C4: a resend for a verified account is refused (400) and neither
\* generates nor stores a token or an expiry, and mails nothing.
C4_ResendOnlyWhileUnverified ==
    [][(/\ Serves("resendVerificationEmail")
        /\ FindByEmail(req'.email) # {}
        /\ AccountOf(req'.email).isEmailVerified)
       => (/\ res' = Resp(400, "Email is already verified")
           /\ users' = users /\ nextRand' = nextRand /\ mail' = NoMail)]_vars

\* a resend was refused because the account is verified
C4_Witness ==
    /\ req.op = "resendVerificationEmail"
    /\ res = Resp(400, "Email is already verified")
    /\ FindByEmail(req.email) # {}
    /\ AccountOf(req.email).isEmailVerified
\* C5: on every account the verification token is present exactly when its
\* expiry is, and the reset token exactly when its expiry is.
C5_TokenAndExpiryTogether ==
    \A i \in DOMAIN users :
        /\ (users[i].emailVerificationToken = NoToken)
              <=> (users[i].emailVerificationExpires = NoDate)
        /\ (users[i].passwordResetToken = NoJwt)
              <=> (users[i].passwordResetExpires = NoDate)

\* an email change through updateUser went through on an account with a
\* reset pending: the verification pair is gone, the reset pair is there
C5_Witness ==
    /\ req.op = "updateUser" /\ res.status = 200
    /\ req.id \in DOMAIN users
    /\ req.email # "" /\ users[req.id].email = req.email
    /\ users[req.id].emailVerificationToken = NoToken
    /\ users[req.id].emailVerificationExpires = NoDate
    /\ users[req.id].passwordResetToken # NoJwt
    /\ users[req.id].passwordResetExpires # NoDate

\* C6: no account is verified while it still holds a verification token.
C6_VerifiedHasNoPendingToken ==
    \A i \in DOMAIN users :
        users[i].isEmailVerified =>
            /\ users[i].emailVerificationToken = NoToken
            /\ users[i].emailVerificationExpires = NoDate

\* C7 as stated: forgotPassword with an email given always answers the one
\* generic response, whether or not an account has the email and whether or
\* not the dispatch works.
C7_ForgotPasswordAlwaysGeneric ==
    (req.op = "forgotPassword" /\ req.email # "") => res = ForgotGeneric

DispatchFailed == mail.kind = "passwordReset" /\ ~mail.ok

\* C7 amended: forgotPassword with an email given answers the one generic
\* response both when no account has the email and when an account has it
\* and the reset email was dispatched; only a failed dispatch answers 500.
C7_ForgotPasswordGenericUnlessDispatchFails ==
    (req.op = "forgotPassword" /\ req.email # "") =>
        IF DispatchFailed THEN res.status = 500 ELSE res = ForgotGeneric

\* an existing account got the generic response, its reset email dispatched
C7_Witness ==
    /\ req.op = "forgotPassword"
    /\ FindByEmail(req.email) # {}
    /\ mail.kind = "passwordReset" /\ mail.ok /\ mail.to = req.email
    /\ AccountOf(req.email).passwordResetToken = mail.jwt
    /\ res = ForgotGeneric

\* C8: a failed dispatch of the reset email makes forgotPassword answer 500,
\* a failed dispatch of the verification email leaves signup at 201 with the
\* account created.
C8_DispatchFailureAsymmetry ==
    /\ (req.op = "forgotPassword" /\ DispatchFailed) =>
          res = Resp(500, "Failed to send password reset email. Please try again later.")
    /\ (req.op = "signup" /\ mail.kind = "verification" /\ ~mail.ok) =>
          (res.status = 201 /\ FindByEmail(req.email) # {})

\* forgotPassword for an existing account answered 500, its dispatch failed
C8_Witness ==
    /\ req.op = "forgotPassword"
    /\ FindByEmail(req.email) # {}
    /\ DispatchFailed
    /\ res.status = 500

\* a well-formed reset token that is past its own expiry, or past the expiry
\* stored with it
ExpiredResetToken(token) ==
    /\ token.secret = RESET_TOKEN_SECRET
    /\ \/ ClockTimestamp(now) >= token.exp
       \/ \E i \in DOMAIN users :
             /\ users[i].passwordResetToken = token
             /\ users[i].passwordResetExpires <= now

\* C9: verifyResetToken and resetPassword refuse an expired reset token,
\* also when it is the one stored on the account, and write nothing.
C9_ExpiredResetTokenRejected ==
    [][((Serves("verifyResetToken") \/ Serves("resetPassword"))
        /\ ExpiredResetToken(req'.jwt))
       => (res'.status = 400 /\ users' = users)]_vars

\* resetPassword refused the token stored on an account because it expired
C9_Witness ==
    /\ req.op = "resetPassword"
    /\ res = Resp(400, "Reset token has expired")
    /\ \E i \in DOMAIN users : users[i].passwordResetToken = req.jwt

\* C10: a successful resetPassword stores the hash of the new password and
\* clears the reset token and its expiry, and the token it consumed is
\* refused by every later resetPassword and verifyResetToken.
C10_ResetTokenSingleUse ==
    [][/\ (Serves("resetPassword") /\ res'.status = 200) =>
            /\ users'[req'.jwt.sub].password = BcryptHash(req'.password)
            /\ users'[req'.jwt.sub].passwordResetToken = NoJwt
            /\ users'[req'.jwt.sub].passwordResetExpires = NoDate
       /\ ((Serves("verifyResetToken") \/ Serves("resetPassword"))
           /\ req'.jwt \in consumed.reset)
          => res'.status # 200]_vars

\* C11: verifyResetToken is read-only: whatever it answers, every field of
\* every account is as before, and a token it reported valid is still accepted
\* by resetPassword (with a well-formed password pair) right afterwards
C11_VerifyResetTokenReadOnly ==
    [][Serves("verifyResetToken") =>
          /\ users' = users
          /\ res'.status = 200 =>
                (ResetPasswordCheck(req.jwt, "longenough2", "longenough2").status = 200)'
      ]_vars

\* verifyResetToken has just reported a stored token valid
C11_Witness ==
    /\ req.op = "verifyResetToken"
    /\ res.status = 200
    /\ \E i \in DOMAIN users : users[i].passwordResetToken = req.jwt

\* C12: a valid signup never stores the submitted plaintext but a hash that
\* the plaintext compares equal to; and a login with the email of a verified
\* account and the plaintext its stored hash was made from answers 200 with an
\* access token in the body and a refresh token in the cookie
C12_PasswordHashedAndLoginSucceeds ==
    [][/\ (Serves("signup") /\ res'.status = 201) =>
             /\ users'[nextId].password # req'.password
             /\ BcryptCompare(req'.password, users'[nextId].password)
       /\ (/\ Serves("login")
           /\ FindByEmail(req'.email) # {}
           /\ AccountOf(req'.email).isEmailVerified
           /\ BcryptCompare(req'.password, AccountOf(req'.email).password)) =>
             /\ res'.status = 200
             /\ res'.accessToken # NoJwt
             /\ res'.cookie # NoJwt
      ]_vars

\* an account made by signup has been verified and has logged in with the
\* password it signed up with
C12_Witness ==
    /\ req.op = "login"
    /\ req.email = "a@x.com"
    /\ req.password = "longenough1"
    /\ res.status = 200
    /\ \E t \in consumed.verify : TRUE

InvalidCredentials == Resp(401, "Invalid credentials")

\* the password of a login request does not match the account of its email
WrongPassword == ~BcryptCompare(req'.password, AccountOf(req'.email).password)

\* C13 as stated: every login with both fields given, where no account has
\* the email or the password does not match the account's, gets the one
\* response an unknown email gets
C13_LoginNoDistinction ==
    [][(/\ Serves("login")
        /\ req'.email # "" /\ req'.password # ""
        /\ (FindByEmail(req'.email) = {} \/ WrongPassword)) =>
          res' = InvalidCredentials
      ]_vars

\* C13, amended: an unknown email and a wrong password for a verified account
\* get the identical 401; an unverified account gets the verify-first answer
\* whatever the password, which tells the caller that the account exists
C13_LoginNoDistinctionOnceVerified ==
    [][(Serves("login") /\ req'.email # "" /\ req'.password # "") =>
          /\ (FindByEmail(req'.email) = {}
                 \/ (AccountOf(req'.email).isEmailVerified /\ WrongPassword)) =>
                res' = InvalidCredentials
          /\ (FindByEmail(req'.email) # {}
                 /\ ~AccountOf(req'.email).isEmailVerified) =>
                res' = VerifyFirst
      ]_vars

\* a wrong password for a verified account was answered as an unknown email is
C13_Witness ==
    /\ req.op = "login"
    /\ FindByEmail(req.email) # {}
    /\ AccountOf(req.email).isEmailVerified
    /\ ~BcryptCompare(req.password, AccountOf(req.email).password)
    /\ res = InvalidCredentials

\* a bearer token that is present, signed with the access key, unexpired, and
\* whose subject is an account of the collection
Authentic(bearer) ==
    /\ bearer # NoJwt /\ bearer # MalformedJwt
    /\ bearer.secret = JWT_SECRET
    /\ ClockTimestamp(now) < bearer.exp
    /\ bearer.sub \in DOMAIN users

AdminOnly == {"createUser", "updateUserStatus", "deleteUser"}

\* C14: a request to a guarded route reaches its handler only with a bearer
\* token that is present, passes signature and expiry validation and names an
\* existing account, and the handler then runs as that account; every other
\* request is answered 401 by authenticate and leaves the store as it was
C14_AuthenticateGate ==
    [][/\ (req'.op \in AdminOnly /\ now' = now) =>
             Authentic(req'.jwt) /\ req'.caller = req'.jwt.sub
       /\ Serves("authenticate") =>
             /\ ~Authentic(req'.jwt)
             /\ res'.status = 401
             /\ UNCHANGED <<users, nextId, nextRand, consumed>>
      ]_vars

\* an unexpired access token of an account deleted since was turned away
C14_Witness ==
    /\ req.op = "authenticate"
    /\ JwtVerify(req.jwt, JWT_SECRET, now) = "ok"
    /\ req.jwt.sub \notin DOMAIN users
    /\ res = Resp(401, "Not authorized, user not found")

\* C15: on a route behind restrictTo('admin') an authenticated caller whose
\* role is not admin gets 403, and nothing stored changes
C15_NonAdminForbidden ==
    [][(/\ req'.op \in AdminOnly /\ now' = now
        /\ users[req'.caller].role # "admin") =>
          /\ res' = Forbidden
          /\ UNCHANGED <<users, nextId, nextRand, consumed>>
      ]_vars

\* an account of role user called an admin-only route and got 403
C15_Witness ==
    /\ req.op \in AdminOnly
    /\ req.caller \in DOMAIN users
    /\ users[req.caller].role = "user"
    /\ res.status = 403

\* C16: isLoggedIn never rejects: whatever bearer token a request carries, it
\* sends no response and calls next once, and it sets req.user only for a
\* valid token of an existing account, to that account
C16_IsLoggedInNeverRejects ==
    [][Serves("isLoggedIn") =>
          /\ isLoggedIn(req'.jwt).next = 1
          /\ res' = Resp(0, "")
          /\ req'.caller # 0 <=> Authentic(req'.jwt)
          /\ req'.caller # 0 => req'.caller = req'.jwt.sub
          /\ UNCHANGED <<users, nextId, nextRand, consumed>>
      ]_vars

\* the unexpired token of a deleted account went through as anonymous
C16_Witness ==
    /\ req.op = "isLoggedIn"
    /\ req.caller = 0
    /\ JwtVerify(req.jwt, JWT_SECRET, now) = "ok"
    /\ req.jwt.sub \notin DOMAIN users
    /\ res.status = 0

\* the cookie of a refreshToken request is a refresh token that verifies and
\* names an existing account
ValidRefresh(cookie) ==
    /\ cookie # NoJwt
    /\ JwtVerify(cookie, REFRESH_TOKEN_SECRET, now) = "ok"
    /\ cookie.sub \in DOMAIN users

\* C17: refreshToken with a valid, unexpired refresh token of an existing
\* account answers 200 with an access token signed now in the body and sets
\* the cookie to a refresh token signed now, which differs from the presented
\* one as soon as that one was signed in an earlier second
C17_RefreshRotates ==
    [][(Serves("refreshToken") /\ ValidRefresh(req'.jwt)) =>
          /\ res'.status = 200
          /\ res'.accessToken =
                JwtSign(req'.jwt.sub, JWT_SECRET, AccessTTLSec, now)
          /\ res'.cookie =
                JwtSign(req'.jwt.sub, REFRESH_TOKEN_SECRET, RefreshTTLSec, now)
          /\ ~res'.clearCookie
          /\ req'.jwt.iat < ClockTimestamp(now) => res'.cookie # req'.jwt
      ]_vars

\* a refresh answered 200 and replaced the presented token by another one
C17_Witness ==
    /\ req.op = "refreshToken"
    /\ res.status = 200
    /\ res.accessToken # NoJwt
    /\ res.cookie # NoJwt
    /\ res.cookie # req.jwt

\* C18: no response body carries a refresh token and no cookie an access
\* token: the token of a body is signed with the access key, the token of the
\* refreshToken cookie with the refresh key, and only login and refreshToken
\* hand out either
C18_RefreshTokenOnlyInCookie ==
    /\ res.accessToken # NoJwt => res.accessToken.secret = JWT_SECRET
    /\ res.cookie # NoJwt => res.cookie.secret = REFRESH_TOKEN_SECRET
    /\ (res.accessToken # NoJwt \/ res.cookie # NoJwt) =>
          /\ req.op \in {"login", "refreshToken"}
          /\ res.accessToken # NoJwt /\ res.cookie # NoJwt
          /\ res.accessToken # res.cookie

\* refreshToken has handed out a token pair
C18_Witness ==
    /\ req.op = "refreshToken"
    /\ res.status = 200
    /\ res.accessToken.secret = JWT_SECRET
    /\ res.cookie.secret = REFRESH_TOKEN_SECRET

\* C19: refresh tokens are not revoked: a token that a rotation replaced or
\* whose cookie a logout cleared is still accepted while it is unexpired and
\* its account exists, and yields a new pair
C19_NoServerSideRevocation ==
    [][(/\ Serves("refreshToken")
        /\ req'.jwt \in consumed.discarded
        /\ ValidRefresh(req'.jwt)) =>
          /\ res'.status = 200
          /\ res'.accessToken = generateAccessToken(req'.jwt.sub)
          /\ res'.cookie = generateRefreshToken(req'.jwt.sub)
      ]_vars

\* a token whose cookie a logout had cleared was accepted again (the step
\* itself discards nothing: it signs the very token it was sent)
C19_Witness ==
    /\ req.op = "refreshToken"
    /\ res.status = 200
    /\ req.jwt \in consumed.discarded
    /\ res.cookie = req.jwt

\* C20: when the presented refresh token is expired, malformed or wrongly
\* signed, or its account is gone, refreshToken answers 401, clears the
\* cookie and issues no token
C20_RefreshFailureClearsCookie ==
    [][(/\ Serves("refreshToken")
        /\ req'.jwt # NoJwt
        /\ ~ValidRefresh(req'.jwt)) =>
          /\ res'.status = 401
          /\ res'.clearCookie
          /\ res'.accessToken = NoJwt
          /\ res'.cookie = NoJwt
          /\ UNCHANGED <<users, nextId, nextRand, consumed>>
      ]_vars

\* an expired refresh token of an existing account was refused
C20_Witness ==
    /\ req.op = "refreshToken"
    /\ req.jwt.secret = REFRESH_TOKEN_SECRET
    /\ req.jwt.sub \in DOMAIN users
    /\ res = RefreshFailure("Refresh token expired")

\* why jwt.verify turns a token down: it cannot be parsed, its signature is
\* not of the key, or it is past its expiry
FailureKind(token, secret) ==
    IF token = MalformedJwt THEN "Malformed"
    ELSE IF token.secret # secret THEN "SignatureInvalid"
    ELSE IF ClockTimestamp(now) >= token.exp THEN "Expired"
    ELSE "none"

\* C21: in authenticate and refreshToken, two tokens that fail validation
\* for different reasons (malformed, wrong signature, expired) never get the
\* same status and message
C21_DistinctTokenErrors ==
    [][/\ Serves("authenticate") =>
             \A b \in Bearers \ {NoJwt} :
                (/\ FailureKind(b, JWT_SECRET) # "none"
                 /\ FailureKind(req'.jwt, JWT_SECRET) # "none"
                 /\ FailureKind(b, JWT_SECRET) # FailureKind(req'.jwt, JWT_SECRET))
                => Resp(authenticate(b).status, authenticate(b).message) # res'
       /\ Serves("refreshToken") =>
             \A c \in RefreshCookies \ {NoJwt} :
                (/\ FailureKind(c, REFRESH_TOKEN_SECRET) # "none"
                 /\ FailureKind(req'.jwt, REFRESH_TOKEN_SECRET) # "none"
                 /\ FailureKind(c, REFRESH_TOKEN_SECRET)
                      # FailureKind(req'.jwt, REFRESH_TOKEN_SECRET))
                => RefreshResponse(c) # res'
      ]_vars

BestEffortMails == {"verification", "welcome", "passwordResetSuccess"}

\* C22: when the verification, welcome or confirmation email of a request
\* fails to go out, the request has succeeded all the same: signup answered
\* 201 and the account is stored, verifyEmail answered 200 and the account is
\* verified, resetPassword answered 200 and the new password is stored
C22_BestEffortMailNeverFailsRequest ==
    [][(mail'.kind \in BestEffortMails /\ ~mail'.ok /\ now' = now) =>
          /\ req'.op = "signup" =>
                /\ res'.status = 201
                /\ nextId \in DOMAIN users' /\ users'[nextId].email = req'.email
          /\ req'.op = "verifyEmail" =>
                /\ res'.status = 200
                /\ users'[Min(FindByEmail(req'.email))].isEmailVerified
          /\ req'.op = "resetPassword" =>
                /\ res'.status = 200
                /\ users'[req'.jwt.sub].password = BcryptHash(req'.password)
      ]_vars

\* a signup went through although its verification email failed
C22_Witness ==
    /\ req.op = "signup"
    /\ mail.kind = "verification" /\ ~mail.ok
    /\ res.status = 201
    /\ FindByEmail(req.email) # {}

\* C23: no two accounts ever share an email, whatever the interleaving of
\* signup, createUser and updateUser, two requests that both passed the
\* existence pre-check included
C23_EmailUnique ==
    \A i, j \in DOMAIN users : users[i].email = users[j].email => i = j

\* a write was refused by the unique index after its request had passed the
\* pre-check: createUser answered 500 for an email that is stored
C23_Witness ==
    /\ req.op = "createUser"
    /\ res = Resp(500, "Server error while creating user")
    /\ FindByEmail(req.email) # {}
    /\ C23_EmailUnique

\* a step of the interleaved handlers that sends the response of an op
\* request, as opposed to one that suspends a request
Responds(op) ==
    req'.op = op /\ BagCardinality(pending') <= BagCardinality(pending)

\* C24: creating an account with an email that is already stored is answered
\* 409 by signup and by createUser, whether the pre-check or the storage
\* layer finds the duplicate
C24_DuplicateAnswered409 ==
    [][(/\ Responds("signup") \/ Responds("createUser")
        /\ FindByEmail(req'.email) # {})
       => res'.status = 409]_vars

\* C25: the role and isEmailVerified of an account change only in a request
\* of an admin caller or in verifyEmail; no request of a non-admin caller
\* changes either, the caller's own account included
C25_OnlyAdminOrVerificationFlow ==
    [][\A i \in DOMAIN users \cap DOMAIN users' :
          (\/ users'[i].role # users[i].role
           \/ users'[i].isEmailVerified # users[i].isEmailVerified)
          => \/ req'.op = "verifyEmail"
             \/ /\ req'.caller \in DOMAIN users
                /\ users[req'.caller].role = "admin"]_vars

\* C26: no response body of signup, login, createUser, getUsers, getUserById
\* or updateUser contains the password field of an account
C26_PasswordNeverSerialized ==
    \A k \in DOMAIN res.data : "password" \notin DOMAIN res.data[k]

\* login answered 200 with the account in its body, the password having been
\* loaded for the comparison
C26_Witness ==
    /\ req.op = "login"
    /\ res.status = 200
    /\ Len(res.data) = 1
    /\ res.data[1].email = req.email
    /\ "password" \notin DOMAIN res.data[1]

\* C27: every stored profile's userId refers to an existing account, after
\* any sequence of createProfile, updateProfile, deleteProfile, deleteUser
\* and bulkDeleteUsers
C27_ProfileRefersToUser ==
    \A p \in BagToSet(profiles) : p.userId \in DOMAIN users

\* C28: no user ever has two profiles, concurrent createProfile requests of
\* one user included, and createProfile for a user who has a profile is
\* rejected and leaves the profiles as they are
C28_OneProfilePerUser ==
    [][/\ \A p, q \in BagToSet(profiles') :
             /\ CopiesIn(p, profiles') = 1
             /\ p.userId = q.userId => p = q
       /\ (Responds("createProfile") /\ FindProfiles(req'.caller) # {})
          => (res'.status \in {400, 500} /\ profiles' = profiles)]_vars

\* the second of two concurrent createProfile requests of one user, refused
\* by the storage layer after it had passed the pre-check
C28_Witness ==
    /\ req.op = "createProfile"
    /\ res = Resp(500, "Server error while creating profile")
    /\ req.caller \in DOMAIN users
    /\ CountProfiles(req.caller) = 1

\* C29: PUT /api/profile/{id}, sent by the user or an admin, answers 200
\* when the user has a profile and 201 when not, and the user has a profile
\* afterwards
C29_UpdateOrCreateProfile ==
    [][(/\ Responds("updateProfile")
        /\ req'.caller \in DOMAIN users
        /\ users[req'.caller].role = "admin" \/ req'.ids = {req'.caller})
       => /\ res'.status = (IF \E u \in req'.ids : FindProfiles(u) # {}
                            THEN 200 ELSE 201)
          /\ \A u \in req'.ids : \E p \in BagToSet(profiles') :
                p.userId = u]_vars

\* C30: deleteUser with the admin caller's own id, and bulkDeleteUsers with
\* a list that names the caller, answer 400 and delete no account
C30_NoSelfDeletion ==
    [][(/\ \/ Responds("deleteUser") /\ req'.id = req'.caller
           \/ Responds("bulkDeleteUsers") /\ req'.caller \in req'.ids
        /\ req'.caller \in DOMAIN users
        /\ users[req'.caller].role = "admin")
       => (res'.status = 400 /\ users' = users)]_vars

\* C31: a non-admin caller of updateUser who names an id other than their
\* own gets 403 and changes no account, and no updateUser request of a
\* non-admin caller changes a role
C31_UpdateUserAdminOrSelf ==
    [][(/\ Serves("updateUser")
        /\ req'.caller \in DOMAIN users
        /\ users[req'.caller].role # "admin")
       => /\ req'.id # req'.caller => (res'.status = 403 /\ users' = users)
          /\ \A i \in DOMAIN users : users'[i].role = users[i].role]_vars

\* a non-admin caller was refused the update of another, existing account
C31_Witness ==
    /\ req.op = "updateUser"
    /\ req.caller \in DOMAIN users
    /\ users[req.caller].role # "admin"
    /\ req.id \in DOMAIN users \ {req.caller}
    /\ res = Resp(403, "Not authorized to update this user")

\* a step that finishes a request that was suspended at its write
Completes(op) ==
    req'.op = op /\ BagCardinality(pending') < BagCardinality(pending)

\* C33: consuming a token is not atomic: a verifyEmail or resetPassword
\* request that passed the lookup is answered 200 even when another request
\* has consumed the same token in between, so two concurrent requests with
\* one valid token both succeed
C33_ConsumptionNotAtomic ==
    [][/\ (/\ Completes("verifyEmail")
           /\ <<req'.email, req'.token>> \in consumed.verify)
          => /\ res'.status = 200
             /\ <<req'.email, req'.token>> \in consumed'.verifiedAgain
       /\ (Completes("resetPassword") /\ req'.jwt \in consumed.reset)
          => (res'.status = 200 /\ req'.jwt \in consumed'.resetAgain)]_vars

\* both kinds of token have been accepted a second time
C33_Witness ==
    /\ consumed.verifiedAgain # {}
    /\ consumed.resetAgain # {}

\* C34: a refused resetPassword leaves every account as it was, so the
\* password, the reset token and its expiry are untouched and a reset token
\* that was valid before the refused request is still accepted after it
C34_FailedResetTouchesNothing ==
    [][(Serves("resetPassword") /\ res'.status # 200)
       => /\ users' = users
          /\ \A i \in DOMAIN users :
                ResetTokenCheck(users[i].passwordResetToken).status = 200
                => ResetTokenCheck(users[i].passwordResetToken)'.status = 200]_vars

\* the stored, valid token was presented with a password that is too short
\* and is still accepted afterwards
C34_Witness ==
    /\ req.op = "resetPassword"
    /\ res = Resp(400, "Password must be at least 8 characters")
    /\ req.jwt.sub \in DOMAIN users
    /\ users[req.jwt.sub].passwordResetToken = req.jwt
    /\ ResetTokenCheck(req.jwt).status = 200

\* C35: when resendVerificationEmail or forgotPassword answers 500 because
\* the email could not be dispatched, every account is as it was before the
\* request
C35_FailedDispatchLeavesAccount ==
    [][(/\ Serves("resendVerificationEmail") \/ Serves("forgotPassword")
        /\ res'.status = 500)
       => users' = users]_vars

\* C37: no response to an unauthenticated caller, the 201 of signup in
\* particular, carries the emailVerificationToken of an account
C37_VerificationTokenOnlyByMail ==
    req.caller = 0
    => \A k \in DOMAIN res.data :
          \/ "emailVerificationToken" \notin DOMAIN res.data[k]
          \/ res.data[k].emailVerificationToken = NoToken
\* C36: login and refreshToken issue an access token only for an account
\* whose isEmailVerified is true at that moment; an account that became
\* unverified after logging in gets no new access token from its cookie
C36_AccessTokenOnlyForVerified ==
    [][(Serves("login") \/ Serves("refreshToken")) /\ res'.status = 200
         => /\ res'.accessToken.sub \in DOMAIN users
            /\ users[res'.accessToken.sub].isEmailVerified]_vars

C32_SubmitPersistsBeforeMail ==
    [][/\ req'.op = "submitContactForm" /\ pending' = pending
          => ~contactValidation(req'.form)
       /\ BagCardinality(pending') > BagCardinality(pending)
          => /\ Len(contacts') = Len(contacts) + 1
             /\ contacts'[Len(contacts')].status = "new"
             /\ mail' = mail
       /\ Completes("submitContactForm")
          => /\ res'.status = 201
             /\ \E k \in DOMAIN contacts : contacts[k].id = req'.id
             /\ contacts' = contacts]_vars

\* C40: sendAdminReply answers a caller who is not an administrator with 403
\* whatever the contact id and the body are, sends no reply and modifies no
\* contact for such a caller
C40_AdminReplyAdminOnly ==
    [][/\ req'.op = "sendAdminReply"
       /\ pending' = pending
       /\ users[req'.caller].role # "admin"
       => res'.status = 403 /\ mail' = NoMail /\ contacts' = contacts]_vars

\* C39: gmailFailed starts false, becomes true only when a send fails while
\* EMAIL_HOST contains 'gmail', and is never reset; once it is true every
\* transporter created afterwards for a gmail host uses the fallback
\* configuration
C39_GmailFailedLatch ==
    /\ ~mailer.gmailFailed
    /\ [][/\ mailer.gmailFailed => mailer'.gmailFailed
          /\ ~mailer.gmailFailed /\ mailer'.gmailFailed
             => /\ mail'.kind # ""
                /\ ~mail'.ok
                /\ IncludesGmail(mailer.EMAIL_HOST)
          /\ /\ mailer.gmailFailed
             /\ mail'.kind # ""
             /\ BagCardinality(pending') <= BagCardinality(pending)
             /\ IncludesGmail(mailer.EMAIL_HOST)
             => mailer'.config = [host |-> <<"smtp", "ethereal", "email">>,
                                  user |-> "ETHEREAL_USER"]]_vars

\* C39, with the transporters told apart by module: the gmailFailed of
\* emailVerification.js starts false, becomes true only when one of its
\* senders fails while EMAIL_HOST contains 'gmail', and is never reset; once
\* it is true every transporter its senders create afterwards for a gmail
\* host uses the fallback configuration
C39_GmailFailedLatchOfItsModule ==
    /\ ~mailer.gmailFailed
    /\ [][/\ mailer.gmailFailed => mailer'.gmailFailed
          /\ ~mailer.gmailFailed /\ mailer'.gmailFailed
             => /\ mail'.kind \in FlagSenders
                /\ ~mail'.ok
                /\ IncludesGmail(mailer.EMAIL_HOST)
          /\ /\ mailer.gmailFailed
             /\ mail'.kind \in FlagSenders \cup {"welcome"}
             /\ BagCardinality(pending') <= BagCardinality(pending)
             /\ IncludesGmail(mailer.EMAIL_HOST)
             => mailer'.config = [host |-> <<"smtp", "ethereal", "email">>,
                                  user |-> "ETHEREAL_USER"]]_vars

\* a sender of emailVerification.js sent through the fallback after the flag
\* was set on a gmail host
C39_Witness ==
    /\ mailer.gmailFailed
    /\ IncludesGmail(mailer.EMAIL_HOST)
    /\ mail.kind \in FlagSenders \cup {"welcome"}
    /\ mailer.config = [host |-> <<"smtp", "ethereal", "email">>,
                        user |-> "ETHEREAL_USER"]

====
